---- MODULE Spec2Model ----
(***************************************************************************)
(* RAS monitoring daemon (src/RAS_FINAL.py): the UPS guard (UPSMonitor),   *)
(* the filtered sampler (SensorMonitor.get_filtered_sample) and the two    *)
(* timer-driven loops of SensorMonitor (collect_and_publish and            *)
(* ups_monitoring_cycle) with run/stop/cleanup.                            *)
(*                                                                         *)
(* The specifications share the variables:                                 *)
(*   Spec          the daemon: __main__, run(), both loops, stop(), cleanup*)
(*   SpecUPS       a UPSMonitor object driven by successive check_battery  *)
(*                 calls (the shape of a unit test of the guard)           *)
(*   SpecRace      two threads each calling check_battery on one object    *)
(*   SpecSampler   one get_filtered_sample call, sample by sample          *)
(*   SpecAlerts    one check_alerts call on a snapshot                     *)
(*   SpecTelemetry successive send_telemetry calls                         *)
(*   SpecPublish   one publish_data pass and the rest of its cycle body    *)
(* Spec follows control, and of the snapshot the battery value only; what  *)
(* a whole snapshot holds is followed by SpecAlerts and SpecPublish.       *)
(***************************************************************************)
EXTENDS Integers, Sequences, FiniteSets

(* ------------------------------ bounds -------------------------------- *)
\* successive check_battery calls made by the SpecUPS driver
MaxChecks == 3
\* effect counters saturate here (they count notifications and commands)
CountCap == 3
\* largest configured sample count / discard count tried by SpecSampler
MaxSamples == 5
MaxDiscard == 1
\* successive send_telemetry calls made by the SpecTelemetry driver
MaxSends == 2

(* ------------------------- program constants -------------------------- *)
\* UPSMonitor.__init__ default shutdown_threshold; the scenario's threshold
ShutdownThreshold == 20
\* ALERT_THRESHOLDS["ups_battery_low"], the low-battery warning threshold
UpsBatteryLow == 25
\* UPSMonitor.__init__: self.last_battery_level = 100
InitialBatteryLevel == 100
\* get_battery_level returns None when both read paths fail
NoLevel == -1

\* battery percentages get_battery_level can return (a sample of 0..100:
\* below, at and just above the shutdown threshold, at and just above the
\* warning threshold, and well above it)
Levels == {18, 20, 21, 25, 26, 30, 55}
Readings == Levels \cup {NoLevel}

\* threads that may be inside UPSMonitor.check_battery: "ups" is the UPS
\* loop, the only caller in the daemon; "second" is another thread calling
\* into the same object
Callers == {"ups", "second"}

\* exception classes a step can raise; all derive from Exception
ExceptionKinds == {"KeyError", "OSError"}

VARIABLES
  \* configuration
  lowKey,               \* "ups_battery_low" in ALERT_THRESHOLDS
  \* UPSMonitor
  shutdown_triggered,   \* self.shutdown_triggered
  last_battery_level,   \* self.last_battery_level
  cbPc,                 \* per caller: position inside check_battery/safe_shutdown
  cbLevel,              \* per caller: local battery_level
  cbRet,                \* per caller: "True" | "False" | an exception kind | "none"
  cbSeq,                \* per caller: effects of the call in progress, in order
  cbNotify,             \* per caller: how the emergency notification went
  cbPrimary,            \* per caller: how the shutdown command went
  warnCount,            \* low-battery warnings attempted (send_emergency_notification)
  emergCount,           \* emergency notifications attempted in safe_shutdown
  shutdownCmds,         \* 'sudo shutdown -h now' invocations
  poweroffCmds,         \* 'sudo poweroff' invocations
  \* SpecUPS driver
  checks,               \* completed calls: [level, ret, effects, notify, primary,
                        \* triggered]
  \* SensorMonitor scheduler
  running,              \* self._running
  timer,                \* self._timer: the measurement loop's Timer
  ups_timer,            \* self._ups_timer: the UPS loop's Timer
  mainPc,               \* position of the main thread (__main__, run, cleanup)
  mPc,                  \* position inside collect_and_publish
  uPc,                  \* position inside ups_monitoring_cycle
  mExc,                 \* exception state of the measurement iteration
  uExc,                 \* exception state of the UPS iteration
  escaped,              \* an exception has left a loop callback
  mBodyDone,            \* a measurement iteration has finished its try body
  uBodyDone,            \* a UPS iteration has finished its try body
  stops,                \* completed stop() calls
  stopSignal,           \* check_battery has returned False to the UPS loop
  mOverlap,             \* a measurement iteration began while another was executing
  uOverlap,             \* a UPS iteration began while another was executing
  \* get_filtered_sample
  samples,              \* parameter samples (SAMPLE_COUNT)
  discard,              \* parameter discard (DISCARD_COUNT)
  sPc,                  \* position inside get_filtered_sample
  sTaken,               \* sensor_func() calls made so far
  readings,             \* local readings, in the order they were appended
  sRaised,              \* sensor_func() raised during this call
  sResult,              \* the value returned
  \* the snapshot and check_alerts
  sensor_data,          \* self.sensor_data: sensor name -> value or None
  thresholds,           \* ALERT_THRESHOLDS (the keys check_alerts reads)
  aPc,                  \* position inside check_alerts
  alerts,               \* local alerts, in the order they were appended
  alertMessages,        \* send_pushover_notification calls made by check_alerts
  \* ThingsBoardHTTPClient.send_telemetry
  device_tokens,        \* self.device_tokens: device name -> token, "" or None
  tPc,                  \* position inside send_telemetry
  tName,                \* parameter device_name
  tPosts,               \* self.session.post calls made by the call in progress
  tResp,                \* what the POST of the call in progress answered
  tRet,                 \* "True" | "False" | an exception class | "none"
  sends,                \* completed calls: [name, token, posts, resp, ret]
  \* publish_data
  pPc,                  \* position inside publish_data
  pIndex,               \* place in self.sensor_data.items() of the next item
  attempts,             \* sensor name -> send_telemetry calls made in this pass
  success_count,        \* local success_count
  total_sensors,        \* local total_sensors
  \* log_data
  lPc,                  \* position inside log_data
  data,                 \* local data, after map(str, ...): one text per sensor
  csv_line,             \* local csv_line, without its newline
  data_file,            \* lines of config['paths']['data_file']
  backup_file           \* lines of config['paths']['backup_path']

\* the outcomes of the steps of safe_shutdown that can fail
sdOutcomeVars == <<cbNotify, cbPrimary>>

upsVars == <<lowKey, shutdown_triggered, last_battery_level, cbPc, cbLevel,
             cbRet, cbSeq, warnCount, emergCount, shutdownCmds, poweroffCmds,
             sdOutcomeVars>>

\* set when a callback of a loop is entered while that loop is executing
overlapVars == <<mOverlap, uOverlap>>

schedVars == <<running, timer, ups_timer, mainPc, mPc, uPc, mExc, uExc, escaped,
               mBodyDone, uBodyDone, stops, stopSignal, overlapVars>>

samplerVars == <<samples, discard, sPc, sTaken, readings, sRaised, sResult>>

alertVars == <<sensor_data, thresholds, aPc, alerts, alertMessages>>

telVars == <<device_tokens, tPc, tName, tPosts, tResp, tRet, sends>>

pubVars == <<pPc, pIndex, attempts, success_count, total_sensors>>

logVars == <<lPc, data, csv_line, data_file, backup_file>>

\* the state of one cycle body's data path
cycleVars == <<alertVars, telVars, pubVars, logVars>>

\* state outside the UPS guard and the scheduler
otherVars == <<checks, samplerVars, cycleVars>>

vars == <<upsVars, schedVars, otherVars>>

\* what a step inside UPSMonitor leaves alone
notUps == <<otherVars, schedVars>>

Bump(c) == IF c < CountCap THEN c + 1 ELSE c

(* ----------------------------- UPSMonitor ------------------------------ *)

\* mutant of IsCritical: the comparison made strict
IsCritical_Strict(level) == level < ShutdownThreshold

\* check_battery, line 184: battery_level <= self.shutdown_threshold
IsCritical(level) == level <= ShutdownThreshold

\* mutants of IsLow: the comparison flipped; the comparison made strict
IsLow_Flipped(level) == level >= UpsBatteryLow

IsLow_Strict(level) == level < UpsBatteryLow

\* check_battery, line 190: battery_level <= ALERT_THRESHOLDS["ups_battery_low"]
IsLow(level) == level <= UpsBatteryLow

\* mutant of AlreadyTriggered: the guard left out
AlreadyTriggered_NoGuard == FALSE

\* safe_shutdown, lines 124-125: the guard that makes a later call a no-op
AlreadyTriggered == shutdown_triggered

UpsInit ==
  /\ lowKey \in BOOLEAN
  /\ shutdown_triggered = FALSE
  /\ last_battery_level = InitialBatteryLevel
  /\ cbPc = [t \in Callers |-> "idle"]
  /\ cbLevel = [t \in Callers |-> NoLevel]
  /\ cbRet = [t \in Callers |-> "none"]
  /\ cbSeq = [t \in Callers |-> <<>>]
  /\ cbNotify = [t \in Callers |-> "none"]
  /\ cbPrimary = [t \in Callers |-> "none"]
  /\ warnCount = 0
  /\ emergCount = 0
  /\ shutdownCmds = 0
  /\ poweroffCmds = 0

\* lines 177-178: battery_level = self.get_battery_level(); last_battery_level = it
CbRead(t) ==
  /\ cbPc[t] = "read"
  /\ \E level \in Readings :
       /\ cbLevel' = [cbLevel EXCEPT ![t] = level]
       /\ last_battery_level' = level
  /\ cbPc' = [cbPc EXCEPT ![t] = "decide"]
  /\ UNCHANGED notUps
  /\ UNCHANGED <<lowKey, shutdown_triggered, cbRet, cbSeq, warnCount, emergCount,
                 shutdownCmds, poweroffCmds>>
  /\ UNCHANGED sdOutcomeVars

\* lines 180-201: the branch taken on the reading
CbDecide(t) ==
  /\ cbPc[t] = "decide"
  /\ IF cbLevel[t] = NoLevel
       THEN /\ cbPc' = [cbPc EXCEPT ![t] = "ret"]
            /\ cbRet' = [cbRet EXCEPT ![t] = "True"]
       ELSE IF IsCritical(cbLevel[t])
         THEN /\ cbPc' = [cbPc EXCEPT ![t] = "sd_guard"]
              /\ UNCHANGED cbRet
         ELSE IF ~lowKey
           THEN \* ALERT_THRESHOLDS["ups_battery_low"] raises KeyError
                /\ cbPc' = [cbPc EXCEPT ![t] = "ret"]
                /\ cbRet' = [cbRet EXCEPT ![t] = "KeyError"]
           ELSE IF IsLow(cbLevel[t])
             THEN /\ cbPc' = [cbPc EXCEPT ![t] = "warn"]
                  /\ UNCHANGED cbRet
             ELSE /\ cbPc' = [cbPc EXCEPT ![t] = "ret"]
                  /\ cbRet' = [cbRet EXCEPT ![t] = "True"]
  /\ UNCHANGED notUps
  /\ UNCHANGED <<lowKey, shutdown_triggered, last_battery_level, cbLevel, cbSeq,
                 warnCount, emergCount, shutdownCmds, poweroffCmds>>
  /\ UNCHANGED sdOutcomeVars

\* lines 191-196 and 201: the low-battery warning; the notification's own
\* failures are caught inside send_emergency_notification (lines 154-173)
CbWarn(t) ==
  /\ cbPc[t] = "warn"
  /\ warnCount' = Bump(warnCount)
  /\ cbSeq' = [cbSeq EXCEPT ![t] = Append(@, "warn")]
  /\ cbPc' = [cbPc EXCEPT ![t] = "ret"]
  /\ cbRet' = [cbRet EXCEPT ![t] = "True"]
  /\ UNCHANGED notUps
  /\ UNCHANGED <<lowKey, shutdown_triggered, last_battery_level, cbLevel,
                 emergCount, shutdownCmds, poweroffCmds>>
  /\ UNCHANGED sdOutcomeVars

\* safe_shutdown lines 124-125: if self.shutdown_triggered: return;
\* check_battery then returns False (line 187)
SdGuard(t) ==
  /\ cbPc[t] = "sd_guard"
  /\ IF AlreadyTriggered
       THEN /\ cbPc' = [cbPc EXCEPT ![t] = "ret"]
            /\ cbRet' = [cbRet EXCEPT ![t] = "False"]
       ELSE /\ cbPc' = [cbPc EXCEPT ![t] = "sd_set"]
            /\ UNCHANGED cbRet
  /\ UNCHANGED notUps
  /\ UNCHANGED <<lowKey, shutdown_triggered, last_battery_level, cbLevel, cbSeq,
                 warnCount, emergCount, shutdownCmds, poweroffCmds>>
  /\ UNCHANGED sdOutcomeVars

\* mutant of SdSet: the monitor is stopped as soon as the shutdown is
\* triggered, before the notification and the grace wait
SdSet_StopsFirst(t) ==
  /\ cbPc[t] = "sd_set"
  /\ shutdown_triggered' = TRUE
  /\ running' = FALSE
  /\ cbPc' = [cbPc EXCEPT ![t] = "sd_notify"]
  /\ UNCHANGED <<timer, ups_timer, mainPc, mPc, uPc, mExc, uExc, escaped, mBodyDone,
                 uBodyDone, stops, stopSignal, overlapVars, otherVars>>
  /\ UNCHANGED <<lowKey, last_battery_level, cbLevel, cbRet, cbSeq, warnCount,
                 emergCount, shutdownCmds, poweroffCmds>>
  /\ UNCHANGED sdOutcomeVars

\* line 127: self.shutdown_triggered = True
SdSet(t) ==
  /\ cbPc[t] = "sd_set"
  /\ shutdown_triggered' = TRUE
  /\ cbPc' = [cbPc EXCEPT ![t] = "sd_notify"]
  /\ UNCHANGED notUps
  /\ UNCHANGED <<lowKey, last_battery_level, cbLevel, cbRet, cbSeq, warnCount,
                 emergCount, shutdownCmds, poweroffCmds>>
  /\ UNCHANGED sdOutcomeVars

\* what send_emergency_notification (lines 152-173) can meet: the provider
\* answers 200, answers another status (logged, line 168), or the request
\* raises (caught and logged, lines 172-173)
NotifyOutcomes == {"sent", "rejected", "failed"}

\* mutant of AfterNotify: a failed notification ends safe_shutdown
AfterNotify_AbortOnFailure(outcome) ==
  IF outcome = "failed" THEN "ret" ELSE "sd_sleep"

\* lines 131-138: whatever the notification met, safe_shutdown goes on to the
\* grace wait (the notification's failures are swallowed at lines 172-173,
\* and lines 134-135 catch anything that is not)
AfterNotify(outcome) == "sd_sleep"

\* lines 131-135: the emergency notification is attempted
SdNotify(t) ==
  /\ cbPc[t] = "sd_notify"
  /\ emergCount' = Bump(emergCount)
  /\ cbSeq' = [cbSeq EXCEPT ![t] = Append(@, "emergency")]
  /\ \E outcome \in NotifyOutcomes :
       /\ cbNotify' = [cbNotify EXCEPT ![t] = outcome]
       /\ cbPc' = [cbPc EXCEPT ![t] = AfterNotify(outcome)]
  /\ UNCHANGED notUps
  /\ UNCHANGED <<lowKey, shutdown_triggered, last_battery_level, cbLevel, cbRet,
                 warnCount, shutdownCmds, poweroffCmds, cbPrimary>>

\* line 138: time.sleep(30), the grace period
SdSleep(t) ==
  /\ cbPc[t] = "sd_sleep"
  /\ cbSeq' = [cbSeq EXCEPT ![t] = Append(@, "grace")]
  /\ cbPc' = [cbPc EXCEPT ![t] = "sd_cmd"]
  /\ UNCHANGED notUps
  /\ UNCHANGED <<lowKey, shutdown_triggered, last_battery_level, cbLevel, cbRet,
                 warnCount, emergCount, shutdownCmds, poweroffCmds>>
  /\ UNCHANGED sdOutcomeVars

\* lines 141-145: subprocess.run(['sudo','shutdown','-h','now'], check=True);
\* it either succeeds or raises, and a raise leads to the fallback. The
\* process goes on after a success (the system halts it later, at any point:
\* every behaviour here has the halted run as a prefix)
SdCmd(t) ==
  /\ cbPc[t] = "sd_cmd"
  /\ shutdownCmds' = Bump(shutdownCmds)
  /\ cbSeq' = [cbSeq EXCEPT ![t] = Append(@, "shutdown")]
  /\ \E ok \in BOOLEAN :
       IF ok
         THEN /\ cbPc' = [cbPc EXCEPT ![t] = "ret"]
              /\ cbRet' = [cbRet EXCEPT ![t] = "False"]
              /\ cbPrimary' = [cbPrimary EXCEPT ![t] = "ok"]
         ELSE /\ cbPc' = [cbPc EXCEPT ![t] = "sd_fallback"]
              /\ cbPrimary' = [cbPrimary EXCEPT ![t] = "failed"]
              /\ UNCHANGED cbRet
  /\ UNCHANGED notUps
  /\ UNCHANGED <<lowKey, shutdown_triggered, last_battery_level, cbLevel,
                 warnCount, emergCount, poweroffCmds, cbNotify>>

\* lines 147-150: subprocess.run(['sudo','poweroff'], check=True), failure logged
SdFallback(t) ==
  /\ cbPc[t] = "sd_fallback"
  /\ poweroffCmds' = Bump(poweroffCmds)
  /\ cbSeq' = [cbSeq EXCEPT ![t] = Append(@, "poweroff")]
  /\ cbPc' = [cbPc EXCEPT ![t] = "ret"]
  /\ cbRet' = [cbRet EXCEPT ![t] = "False"]
  /\ UNCHANGED notUps
  /\ UNCHANGED <<lowKey, shutdown_triggered, last_battery_level, cbLevel,
                 warnCount, emergCount, shutdownCmds>>
  /\ UNCHANGED sdOutcomeVars

(* ------------------------- get_filtered_sample -------------------------- *)

\* raw readings a sensor function can return
SampleValues == {1, 2, 10}

\* the value None, and a number in hundredths (round(x, 2) keeps two decimals)
NoneResult == [kind |-> "None", v |-> 0]
Value(h) == [kind |-> "value", v |-> h]

\* no call in progress (the other specifications leave the sampler here)
SamplerIdle ==
  /\ samples = 0
  /\ discard = 0
  /\ sPc = "idle"
  /\ sTaken = 0
  /\ readings = <<>>
  /\ sRaised = FALSE
  /\ sResult = NoneResult

\* s with x put before the first element greater than x (s is sorted)
RECURSIVE Insert(_, _)
Insert(s, x) ==
  IF s = <<>> THEN <<x>>
  ELSE IF x <= Head(s) THEN <<x>> \o s
  ELSE <<Head(s)>> \o Insert(Tail(s), x)

\* line 320: readings.sort()
RECURSIVE SortSeq(_)
SortSeq(s) == IF s = <<>> THEN <<>> ELSE Insert(SortSeq(Tail(s)), Head(s))

\* the Python slice s[d:-d] for d > 0: empty when Len(s) <= 2d
PySlice(s, d) == IF Len(s) - d >= d + 1 THEN SubSeq(s, d + 1, Len(s) - d) ELSE <<>>

\* line 321: readings[discard:-discard] if discard > 0 else readings
ValidSamples(sorted, d) == IF d > 0 THEN PySlice(sorted, d) ELSE sorted

RECURSIVE SeqSum(_)
SeqSum(s) == IF s = <<>> THEN 0 ELSE Head(s) + SeqSum(Tail(s))

\* round(total / n, 2) in hundredths; Python rounds a tie to the even digit
Round2(total, n) ==
  LET q == (100 * total) \div n
      r == (100 * total) % n
  IN  IF 2 * r < n THEN q
      ELSE IF 2 * r > n THEN q + 1
      ELSE IF q % 2 = 0 THEN q ELSE q + 1

\* mutant of Insufficient: the comparison off by one
Insufficient_OffByOne(k, n, d) == k <= n - d * 2

\* line 316: len(readings) < (samples - discard*2)
Insufficient(k, n, d) == k < n - d * 2

\* lines 316-325, after the sampling loop: None when the readings are too
\* few; statistics.mean raises StatisticsError on an empty list, which the
\* except clause (323-325) turns into None
FilteredResult(r, n, d) ==
  IF Insufficient(Len(r), n, d) THEN NoneResult
  ELSE LET valid == ValidSamples(SortSeq(r), d)
       IN  IF valid = <<>> THEN NoneResult
           ELSE Value(Round2(SeqSum(valid), Len(valid)))

\* a call get_filtered_sample(sensor_func, samples, discard) begins, with a
\* sample count of at least one
SamplerInit ==
  /\ samples \in 1..MaxSamples
  /\ discard \in 0..MaxDiscard
  /\ sPc = "loop"
  /\ sTaken = 0
  /\ readings = <<>>
  /\ sRaised = FALSE
  /\ sResult = NoneResult

\* lines 310-314: one pass of the loop; sensor_func() returns a reading,
\* returns None, or raises, and a raise leaves the try block (lines 323-325)
SampleTake ==
  /\ sPc = "loop"
  /\ sTaken < samples
  /\ sTaken' = sTaken + 1
  /\ \/ \E x \in SampleValues :
          /\ readings' = Append(readings, x)
          /\ UNCHANGED <<sPc, sRaised, sResult>>
     \/ UNCHANGED <<readings, sPc, sRaised, sResult>>
     \/ /\ sRaised' = TRUE
        /\ sResult' = NoneResult
        /\ sPc' = "done"
        /\ UNCHANGED readings
  /\ UNCHANGED <<samples, discard>>
  /\ UNCHANGED <<upsVars, schedVars, checks, cycleVars>>

\* lines 316-322: the loop is over; the result is computed and returned
SampleFinish ==
  /\ sPc = "loop"
  /\ sTaken = samples
  /\ sResult' = FilteredResult(readings, samples, discard)
  /\ sPc' = "done"
  /\ UNCHANGED <<samples, discard, sTaken, readings, sRaised>>
  /\ UNCHANGED <<upsVars, schedVars, checks, cycleVars>>

(* ------------------------ the snapshot, check_alerts -------------------- *)

\* the keys of self.sensor_data, in the order __init__ declares them
\* (lines 289-297)
Sensors == <<"temperature", "pH", "conductivity", "level", "recirc_pump",
             "dispense_pump", "ups_battery">>

SensorNames == {Sensors[i] : i \in 1..Len(Sensors)}

\* the value None in the snapshot
NoValue == NoLevel

\* __init__, lines 289-297: every sensor starts as None
EmptySnapshot == [n \in SensorNames |-> NoValue]

\* values a two-sided metric, a pump metric and the battery can hold (around
\* the bounds of BoundPairs, the pump bound and the battery warning threshold)
TwoSidedValues == {NoValue, 1, 2, 4}
PumpValues == {NoValue, 1, 2}
BatteryValues == {NoValue, 21, 25, 26}
ConductivityValues == {NoValue, 2}

\* snapshots the measurement phase can leave behind
Snapshots ==
  { [temperature |-> t, pH |-> p, conductivity |-> c, level |-> l,
     recirc_pump |-> r, dispense_pump |-> d, ups_battery |-> u] :
      t \in TwoSidedValues, p \in TwoSidedValues, c \in ConductivityValues,
      l \in TwoSidedValues, r \in PumpValues, d \in PumpValues,
      u \in BatteryValues }

\* a configured (low, high) pair: an ordinary one, and one whose low bound
\* lies above its high bound, so that a value can violate both
OrdinaryPair == [low |-> 2, high |-> 3]
InvertedPair == [low |-> 3, high |-> 1]
BoundPairs == {OrdinaryPair, InvertedPair}

\* ALERT_THRESHOLDS as loaded from the configuration (line 70): the keys
\* check_alerts reads, except "ups_battery_low" (UpsBatteryLow, present when
\* lowKey)
ThresholdsOf(t, p, l) ==
  [temp_low |-> t.low, temp_high |-> t.high, ph_low |-> p.low, ph_high |-> p.high,
   level_low |-> l.low, level_high |-> l.high, pump_current_low |-> 2]

ThresholdConfigs ==
  { ThresholdsOf(t, p, l) : t \in BoundPairs, p \in BoundPairs, l \in BoundPairs }

\* no check_alerts call in progress
AlertsIdle ==
  /\ sensor_data = EmptySnapshot
  /\ thresholds = ThresholdsOf(OrdinaryPair, OrdinaryPair, OrdinaryPair)
  /\ aPc = "idle"
  /\ alerts = <<>>
  /\ alertMessages = 0

\* mutant of TwoSided: the high bound tested first
TwoSided_HighFirst(v, lo, hi) ==
  IF v = NoValue THEN "none"
  ELSE IF v > hi THEN "high"
  ELSE IF v < lo THEN "low"
  ELSE "none"

\* lines 440-456, one stanza: if v is not None: if v < low: ... elif v > high: ...
TwoSided(v, lo, hi) ==
  IF v = NoValue THEN "none"
  ELSE IF v < lo THEN "low"
  ELSE IF v > hi THEN "high"
  ELSE "none"

\* mutant of OneSided: the comparison made inclusive
OneSided_Inclusive(v, lo) ==
  IF v = NoValue THEN "none"
  ELSE IF v <= lo THEN "low"
  ELSE "none"

\* lines 458-464, one stanza: if v is not None: if v < pump_current_low: ...
OneSided(v, lo) ==
  IF v = NoValue THEN "none"
  ELSE IF v < lo THEN "low"
  ELSE "none"

\* lines 467-469: if v is not None: if v <= ALERT_THRESHOLDS["ups_battery_low"]: ...
BatteryAlert(v) ==
  IF v = NoValue THEN "none"
  ELSE IF v <= UpsBatteryLow THEN "low"
  ELSE "none"

\* what a stanza appends to alerts
Entry(name, bound) ==
  IF bound = "none" THEN <<>> ELSE <<[metric |-> name, bound |-> bound]>>

\* lines 438-464: the list after the five stanzas before the battery's
AlertsBeforeBattery(sd, th) ==
  Entry("temperature", TwoSided(sd["temperature"], th.temp_low, th.temp_high))
  \o Entry("pH", TwoSided(sd["pH"], th.ph_low, th.ph_high))
  \o Entry("level", TwoSided(sd["level"], th.level_low, th.level_high))
  \o Entry("recirc_pump", OneSided(sd["recirc_pump"], th.pump_current_low))
  \o Entry("dispense_pump", OneSided(sd["dispense_pump"], th.pump_current_low))

\* lines 438-469: the list check_alerts builds
CheckAlerts(sd, th) ==
  AlertsBeforeBattery(sd, th) \o Entry("ups_battery", BatteryAlert(sd["ups_battery"]))

\* a check_alerts call begins on a snapshot
AlertsInit ==
  /\ sensor_data \in Snapshots
  /\ thresholds \in ThresholdConfigs
  /\ aPc = "start"
  /\ alerts = <<>>
  /\ alertMessages = 0

\* lines 438-469: the six stanzas; the battery stanza reads
\* ALERT_THRESHOLDS["ups_battery_low"] when the battery value is present, and
\* that raises KeyError when the key is not configured
AlertsEvaluate ==
  /\ aPc = "start"
  /\ IF sensor_data["ups_battery"] # NoValue /\ ~lowKey
       THEN /\ alerts' = AlertsBeforeBattery(sensor_data, thresholds)
            /\ aPc' = "raised"
       ELSE /\ alerts' = CheckAlerts(sensor_data, thresholds)
            /\ aPc' = "evaluated"
  /\ UNCHANGED <<sensor_data, thresholds, alertMessages>>
  /\ UNCHANGED <<upsVars, schedVars, checks, samplerVars, telVars, pubVars, logVars>>

\* lines 471-474: one notification carrying every alert, when there is any
\* (send_pushover_notification swallows its own failures, lines 418-434)
AlertsNotify ==
  /\ aPc = "evaluated"
  /\ alertMessages' = IF alerts # <<>> THEN Bump(alertMessages) ELSE alertMessages
  /\ aPc' = "done"
  /\ UNCHANGED <<sensor_data, thresholds, alerts>>
  /\ UNCHANGED <<upsVars, schedVars, checks, samplerVars, telVars, pubVars, logVars>>

(* --------------- ThingsBoardHTTPClient.send_telemetry ------------------ *)

\* a device credential: os.getenv gives None for an unset variable, and a
\* set variable can be empty
NoToken == "None"
TokenValues == {NoToken, "", "token"}

\* device names send_telemetry is called with: keys of DEVICE_CREDENTIALS
\* (lines 59-67), and a name that is no key of it
TelemetryDevices == {"temperature", "pH", "ups_battery"}
DeviceNames == TelemetryDevices \cup {"unknown_device"}

\* DEVICE_CREDENTIALS as loaded (lines 59-67): two of the credentials vary
TokenConfigs ==
  { [n \in SensorNames |-> IF n = "temperature" THEN a
                           ELSE IF n = "pH" THEN b ELSE "token"] :
      a \in TokenValues, b \in TokenValues }

\* line 216: self.device_tokens.get(device_name)
TokenOf(tokens, name) == IF name \in DOMAIN tokens THEN tokens[name] ELSE NoToken

\* line 217: "if not token" is taken for None and for the empty string
HasToken(token) == token # NoToken /\ token # ""

\* what self.session.post (lines 239-244) can do: answer with a status, or
\* raise; SSLError derives from ConnectionError, and "OtherError" is any
\* other Exception subclass
StatusCodes == {200, 201, 204, 301, 400, 401, 500}
TransportErrors == {"SSLError", "ConnectionError", "Timeout", "OtherError"}
NoResponse == [kind |-> "none", code |-> 0, exc |-> "none"]
Responses ==
  { [kind |-> "status", code |-> c, exc |-> "none"] : c \in StatusCodes }
  \cup { [kind |-> "raise", code |-> 0, exc |-> e] : e \in TransportErrors }

\* mutant of IsSuccessStatus: every 2xx status taken for a success
IsSuccessStatus_Any2xx(code) == code >= 200 /\ code <= 299

\* line 246: response.status_code in [200, 201]
IsSuccessStatus(code) == code \in {200, 201}

\* mutant of TelemetryCatches: the final "except Exception" clause left out
TelemetryCatches_Named(e) == e \in {"SSLError", "ConnectionError", "Timeout"}

\* lines 253-264: the except clauses, the last of which names Exception
TelemetryCatches(e) == e \in TransportErrors

\* lines 246-264: the value returned once the POST has answered or raised
PostResult(resp) ==
  IF resp.kind = "status"
    THEN (IF IsSuccessStatus(resp.code) THEN "True" ELSE "False")
    ELSE (IF TelemetryCatches(resp.exc) THEN "False" ELSE resp.exc)

\* no send_telemetry call in progress
TelemetryIdle ==
  /\ device_tokens = [n \in SensorNames |-> "token"]
  /\ tPc = "idle"
  /\ tName = "temperature"
  /\ tPosts = 0
  /\ tResp = NoResponse
  /\ tRet = "none"
  /\ sends = <<>>

\* a client whose credentials have been loaded; no call made yet
TelemetryInit ==
  /\ device_tokens \in TokenConfigs
  /\ tPc = "idle"
  /\ tName = "temperature"
  /\ tPosts = 0
  /\ tResp = NoResponse
  /\ tRet = "none"
  /\ sends = <<>>

\* a caller calls send_telemetry(device_name, data)
TelCall ==
  /\ tPc = "idle"
  /\ Len(sends) < MaxSends
  /\ \E name \in DeviceNames : tName' = name
  /\ tPc' = "lookup"
  /\ tPosts' = 0
  /\ tResp' = NoResponse
  /\ tRet' = "none"
  /\ UNCHANGED <<device_tokens, sends>>
  /\ UNCHANGED <<upsVars, schedVars, checks, samplerVars, alertVars, pubVars, logVars>>

\* lines 216-219: the token is looked up; without one the call returns False
TelLookup ==
  /\ tPc = "lookup"
  /\ IF HasToken(TokenOf(device_tokens, tName))
       THEN /\ tPc' = "post"
            /\ UNCHANGED tRet
       ELSE /\ tPc' = "ret"
            /\ tRet' = "False"
  /\ UNCHANGED <<device_tokens, tName, tPosts, tResp, sends>>
  /\ UNCHANGED <<upsVars, schedVars, checks, samplerVars, alertVars, pubVars, logVars>>

\* lines 221-264: the payload is built and posted; the answer, or the
\* exception, decides the result
TelPost ==
  /\ tPc = "post"
  /\ tPosts' = tPosts + 1
  /\ \E resp \in Responses :
       /\ tResp' = resp
       /\ tRet' = PostResult(resp)
  /\ tPc' = "ret"
  /\ UNCHANGED <<device_tokens, tName, sends>>
  /\ UNCHANGED <<upsVars, schedVars, checks, samplerVars, alertVars, pubVars, logVars>>

\* the call returns (or raises) to its caller, which records it
TelReturn ==
  /\ tPc = "ret"
  /\ sends' = Append(sends, [name |-> tName, token |-> TokenOf(device_tokens, tName),
                             posts |-> tPosts, resp |-> tResp, ret |-> tRet])
  /\ tPc' = "idle"
  /\ UNCHANGED <<device_tokens, tName, tPosts, tResp, tRet>>
  /\ UNCHANGED <<upsVars, schedVars, checks, samplerVars, alertVars, pubVars, logVars>>

(* ------------------------------ publish_data ---------------------------- *)

\* no publish_data pass in progress
PublishIdle ==
  /\ pPc = "idle"
  /\ pIndex = 1
  /\ attempts = [n \in SensorNames |-> 0]
  /\ success_count = 0
  /\ total_sensors = 0

\* snapshots told apart by which sensors have a value
PublishSnapshots ==
  { sd \in Snapshots : \A n \in SensorNames : sd[n] \in {NoValue, 2, 25} }

\* send_telemetry as publish_data sees it (line 508): its result for a
\* device name, given what the POST does if one is made
SendTelemetry(tokens, name, resp) ==
  IF HasToken(TokenOf(tokens, name)) THEN PostResult(resp) ELSE "False"

\* mutant of NextItem: the pass abandoned at the first failed attempt
NextItem_BreakOnFailure(i, success) == IF success THEN i + 1 ELSE Len(Sensors) + 1

\* line 505: the for loop goes on to the next item whatever the result was
NextItem(i, success) == i + 1

\* a publish_data pass begins: collect_and_publish, inside its try body with
\* the snapshot measured, calls it (line 561)
PublishInit ==
  /\ sensor_data \in PublishSnapshots
  /\ device_tokens \in TokenConfigs
  /\ pPc = "idle"
  /\ pIndex = 1
  /\ attempts = [n \in SensorNames |-> 0]
  /\ success_count = 0
  /\ total_sensors = 0

\* lines 501-503: the counters are set to zero and the loop begins
PubBegin ==
  /\ mPc = "publish"
  /\ pPc = "idle"
  /\ pPc' = "loop"
  /\ pIndex' = 1
  /\ attempts' = [n \in SensorNames |-> 0]
  /\ success_count' = 0
  /\ total_sensors' = 0
  /\ UNCHANGED <<upsVars, schedVars, checks, samplerVars, alertVars, telVars, logVars>>

\* lines 505-512: one item of self.sensor_data.items(), which yields the
\* sensors in declaration order; a value that is not None is sent
PubItem ==
  /\ pPc = "loop"
  /\ pIndex <= Len(Sensors)
  /\ LET name == Sensors[pIndex]
     IN  IF sensor_data[name] # NoValue
           THEN \E resp \in Responses :
                  LET success == SendTelemetry(device_tokens, name, resp) = "True"
                  IN  /\ total_sensors' = total_sensors + 1
                      /\ attempts' = [attempts EXCEPT ![name] = @ + 1]
                      /\ success_count' = IF success THEN success_count + 1
                                          ELSE success_count
                      /\ pIndex' = NextItem(pIndex, success)
           ELSE /\ pIndex' = pIndex + 1
                /\ UNCHANGED <<attempts, success_count, total_sensors>>
  /\ UNCHANGED pPc
  /\ UNCHANGED <<upsVars, schedVars, checks, samplerVars, alertVars, telVars, logVars>>

\* lines 514-517: the summary is logged and publish_data returns to
\* collect_and_publish, which goes on to log_data (line 562)
PubSummary ==
  /\ pPc = "loop"
  /\ pIndex > Len(Sensors)
  /\ pPc' = "done"
  /\ mPc' = "log"
  /\ UNCHANGED <<pIndex, attempts, success_count, total_sensors>>
  /\ UNCHANGED <<running, timer, ups_timer, mainPc, uPc, mExc, uExc, escaped,
                 mBodyDone, uBodyDone, stops, stopSignal>>
  /\ UNCHANGED <<upsVars, checks, samplerVars, alertVars, telVars, logVars>>
  /\ UNCHANGED overlapVars

(* -------------------------------- log_data ------------------------------ *)

\* no log_data call in progress; both files are empty
LogIdle ==
  /\ lPc = "idle"
  /\ data = <<>>
  /\ csv_line = ""
  /\ data_file = <<>>
  /\ backup_file = <<>>

\* values a sensor may hold when log_data runs: none, zero (a pump that is
\* off, lines 350 and 359; an empty battery, line 95), and a positive one
LogValues == {NoValue, 0, 25}

LogSnapshots == [SensorNames -> LogValues]

\* line 479: datetime.now().strftime("%Y-%m-%d,%H:%M:%S"), at some instant
Timestamp == "2026-01-01,12:00:00"

Digit(d) ==
  CASE d = 0 -> "0" [] d = 1 -> "1" [] d = 2 -> "2" [] d = 3 -> "3" [] d = 4 -> "4"
    [] d = 5 -> "5" [] d = 6 -> "6" [] d = 7 -> "7" [] d = 8 -> "8" [] d = 9 -> "9"

RECURSIVE Str(_)
\* str(n) of a non-negative number: its decimal digits
Str(n) == IF n < 10 THEN Digit(n) ELSE Str(n \div 10) \o Digit(n % 10)

\* Python truth of a snapshot value: None and 0 are false
Truthy(v) == v # NoValue /\ v # 0

\* lines 481-487 and map(str, data) of line 489: str(value or "")
DataField(v) == IF Truthy(v) THEN Str(v) ELSE ""

RECURSIVE Join(_)
\* ','.join(texts)
Join(texts) ==
  IF texts = <<>> THEN ""
  ELSE IF Len(texts) = 1 THEN texts[1]
  ELSE texts[1] \o "," \o Join(Tail(texts))

\* line 562: collect_and_publish calls log_data
LogCall ==
  /\ mPc = "log"
  /\ lPc = "idle"
  /\ lPc' = "format"
  /\ UNCHANGED <<data, csv_line, data_file, backup_file>>
  /\ UNCHANGED <<upsVars, schedVars, checks, samplerVars, alertVars, telVars, pubVars>>

\* lines 479-489: the seven fields in declaration order, then the line
LogFormat ==
  /\ lPc = "format"
  /\ data' = [i \in 1..Len(Sensors) |-> DataField(sensor_data[Sensors[i]])]
  /\ csv_line' = Timestamp \o "," \o Join(data')
  /\ lPc' = "append"
  /\ UNCHANGED <<data_file, backup_file>>
  /\ UNCHANGED <<upsVars, schedVars, checks, samplerVars, alertVars, telVars, pubVars>>

\* lines 491-492: the line is appended to the data file, or open()/write()
\* raises and line 496 catches it
LogAppend ==
  /\ lPc = "append"
  /\ \/ /\ data_file' = Append(data_file, csv_line)
        /\ lPc' = "backup"
     \/ /\ UNCHANGED data_file
        /\ lPc' = "ret"
  /\ UNCHANGED <<data, csv_line, backup_file>>
  /\ UNCHANGED <<upsVars, schedVars, checks, samplerVars, alertVars, telVars, pubVars>>

\* line 495: shutil.copy of the data file over the backup, or it raises and
\* line 496 catches it
LogBackup ==
  /\ lPc = "backup"
  /\ \/ backup_file' = data_file
     \/ UNCHANGED backup_file
  /\ lPc' = "ret"
  /\ UNCHANGED <<data, csv_line, data_file>>
  /\ UNCHANGED <<upsVars, schedVars, checks, samplerVars, alertVars, telVars, pubVars>>

\* log_data returns to collect_and_publish, which goes on to check_alerts
\* (line 563)
LogReturn ==
  /\ lPc = "ret"
  /\ lPc' = "done"
  /\ mPc' = "alerts"
  /\ UNCHANGED <<data, csv_line, data_file, backup_file>>
  /\ UNCHANGED <<running, timer, ups_timer, mainPc, uPc, mExc, uExc, escaped,
                 mBodyDone, uBodyDone, stops, stopSignal>>
  /\ UNCHANGED overlapVars
  /\ UNCHANGED <<upsVars, checks, samplerVars, alertVars, telVars, pubVars>>

(* ------------------------ SensorMonitor scheduler ----------------------- *)

\* __init__ lines 299-302: no timers, not running; the main thread has not
\* called run() yet
SchedInit ==
  /\ running = FALSE
  /\ timer = "none"
  /\ ups_timer = "none"
  /\ mainPc = "start"
  /\ mPc = "idle"
  /\ uPc = "idle"
  /\ mExc = "none"
  /\ uExc = "none"
  /\ escaped = FALSE
  /\ mBodyDone = FALSE
  /\ uBodyDone = FALSE
  /\ stops = 0
  /\ stopSignal = FALSE
  /\ mOverlap = FALSE
  /\ uOverlap = FALSE

\* threading.Timer.cancel(), guarded by "if self._timer:" (lines 586-589): a
\* Timer that was created or is waiting never calls its function; one that
\* has fired, or was cancelled, or a handle that is None, is left as it is
Cancel(h) == IF h \in {"created", "armed"} THEN "cancelled" ELSE h

\* threading.Timer.start(): a created Timer starts waiting; a Timer cancelled
\* before start() finds its event set and never calls its function
Start(h) == IF h = "created" THEN "armed" ELSE h

\* mutant of CycleCatches: the except clause names one class only
CycleCatches_Narrow(e) == e = "OSError"

\* "except Exception as e" (lines 536, 566) catches every class that derives
\* from Exception
CycleCatches(e) == e \in ExceptionKinds

\* the state of an iteration's exception once the except clause has been tried
AfterExcept(e) == IF CycleCatches(e) THEN "handled" ELSE "pending"

\* mutants of StopEffect: stop() forgets to clear _running; stop() flips it
StopEffect_KeepsRunning(s) ==
  [running |-> s.running, timer |-> Cancel(s.timer), ups_timer |-> Cancel(s.ups_timer)]

StopEffect_Toggle(s) ==
  [running |-> ~s.running, timer |-> Cancel(s.timer), ups_timer |-> Cancel(s.ups_timer)]

\* stop(), lines 585-589, as one function of the three fields it writes
StopEffect(s) ==
  [running |-> FALSE, timer |-> Cancel(s.timer), ups_timer |-> Cancel(s.ups_timer)]

\* the three fields stop() writes, as they are now
RunState == [running |-> running, timer |-> timer, ups_timer |-> ups_timer]

\* mutant of Run: the two calls of lines 580-581 in the other order
Run_UpsFirst ==
  /\ mainPc = "start"
  /\ running' = TRUE
  /\ mainPc' = "first_u"
  /\ uPc' = "guard"
  /\ UNCHANGED <<timer, ups_timer, mPc, mExc, uExc, escaped, mBodyDone, uBodyDone,
                 stops, stopSignal>>
  /\ UNCHANGED <<upsVars, otherVars>>
  /\ UNCHANGED overlapVars

\* run(), lines 575-580: set _running, then call collect_and_publish()
Run ==
  /\ mainPc = "start"
  /\ running' = TRUE
  /\ mainPc' = "first_m"
  /\ mPc' = "guard"
  /\ mOverlap' = (mOverlap \/ mPc # "idle")
  /\ UNCHANGED uOverlap
  /\ UNCHANGED <<timer, ups_timer, uPc, mExc, uExc, escaped, mBodyDone, uBodyDone,
                 stops, stopSignal>>
  /\ UNCHANGED <<upsVars, otherVars>>

\* run(), line 581: collect_and_publish() has returned; call
\* ups_monitoring_cycle()
RunCallUps ==
  /\ mainPc = "call_u"
  /\ mainPc' = "first_u"
  /\ uPc' = "guard"
  /\ uOverlap' = (uOverlap \/ uPc # "idle")
  /\ UNCHANGED mOverlap
  /\ UNCHANGED <<running, timer, ups_timer, mPc, mExc, uExc, escaped, mBodyDone,
                 uBodyDone, stops, stopSignal>>
  /\ UNCHANGED <<upsVars, otherVars>>

\* __main__, lines 602-603 and 608-609: the wait loop ends when _running is
\* false, and the finally clause calls cleanup()
MainWaitExit ==
  /\ mainPc = "wait"
  /\ ~running
  /\ mainPc' = "cleanup"
  /\ UNCHANGED <<running, timer, ups_timer, mPc, uPc, mExc, uExc, escaped,
                 mBodyDone, uBodyDone, stops, stopSignal>>
  /\ UNCHANGED <<upsVars, otherVars>>
  /\ UNCHANGED overlapVars

\* __main__, lines 604-605 and 608-609: KeyboardInterrupt, taken where the
\* main thread waits (lines 602-603); an interrupt that arrives while run()
\* is still executing the first iterations is not modelled
Interrupt ==
  /\ mainPc = "wait"
  /\ mainPc' = "cleanup"
  /\ UNCHANGED <<running, timer, ups_timer, mPc, uPc, mExc, uExc, escaped,
                 mBodyDone, uBodyDone, stops, stopSignal>>
  /\ UNCHANGED <<upsVars, otherVars>>
  /\ UNCHANGED overlapVars

\* mutant of MainStopFlag: stop() also re-arms the shutdown guard
MainStopFlag_ResetsGuard ==
  /\ mainPc = "cleanup"
  /\ running' = FALSE
  /\ shutdown_triggered' = FALSE
  /\ mainPc' = "stop_cm"
  /\ UNCHANGED <<timer, ups_timer, mPc, uPc, mExc, uExc, escaped, mBodyDone,
                 uBodyDone, stops, stopSignal, overlapVars>>
  /\ UNCHANGED <<lowKey, last_battery_level, cbPc, cbLevel, cbRet, cbSeq, warnCount,
                 emergCount, shutdownCmds, poweroffCmds, sdOutcomeVars, otherVars>>

\* cleanup() -> stop(), line 585: self._running = False
MainStopFlag ==
  /\ mainPc = "cleanup"
  /\ running' = StopEffect(RunState).running
  /\ mainPc' = "stop_cm"
  /\ UNCHANGED <<timer, ups_timer, mPc, uPc, mExc, uExc, escaped, mBodyDone,
                 uBodyDone, stops, stopSignal>>
  /\ UNCHANGED <<upsVars, otherVars>>
  /\ UNCHANGED overlapVars

\* stop(), lines 586-587: if self._timer: self._timer.cancel()
MainStopCancelM ==
  /\ mainPc = "stop_cm"
  /\ timer' = StopEffect(RunState).timer
  /\ mainPc' = "stop_cu"
  /\ UNCHANGED <<running, ups_timer, mPc, uPc, mExc, uExc, escaped, mBodyDone,
                 uBodyDone, stops, stopSignal>>
  /\ UNCHANGED <<upsVars, otherVars>>
  /\ UNCHANGED overlapVars

\* stop(), lines 588-590: if self._ups_timer: self._ups_timer.cancel(); stop()
\* returns
MainStopCancelU ==
  /\ mainPc = "stop_cu"
  /\ ups_timer' = StopEffect(RunState).ups_timer
  /\ stops' = Bump(stops)
  /\ UNCHANGED stopSignal
  /\ mainPc' = "gpio"
  /\ UNCHANGED <<running, timer, mPc, uPc, mExc, uExc, escaped, mBodyDone,
                 uBodyDone>>
  /\ UNCHANGED <<upsVars, otherVars>>
  /\ UNCHANGED overlapVars

\* cleanup(), lines 595-596: GPIO.cleanup(); the main thread ends
MainGpioCleanup ==
  /\ mainPc = "gpio"
  /\ mainPc' = "done"
  /\ UNCHANGED <<running, timer, ups_timer, mPc, uPc, mExc, uExc, escaped,
                 mBodyDone, uBodyDone, stops, stopSignal>>
  /\ UNCHANGED <<upsVars, otherVars>>
  /\ UNCHANGED overlapVars

(* collect_and_publish, lines 543-571 *)

\* the callback returns: to run() when the main thread made the call (the
\* first iteration), else the timer thread ends; an exception no except
\* clause caught leaves the callback here
MReturn ==
  /\ mPc' = "idle"
  /\ escaped' = (escaped \/ mExc = "pending")
  /\ mainPc' = IF mainPc = "first_m"
                 THEN (IF mExc = "pending" THEN "cleanup" ELSE "call_u")
                 ELSE mainPc

\* mutant of MTimerFire: one worker runs the callbacks of both loops, so a
\* measurement callback waits while a UPS callback is executing
MTimerFire_Serialized ==
  /\ timer = "armed"
  /\ uPc = "idle"
  /\ timer' = "fired"
  /\ mPc' = "guard"
  /\ mExc' = "none"
  /\ mOverlap' = (mOverlap \/ mPc # "idle")
  /\ UNCHANGED <<running, ups_timer, mainPc, uPc, uExc, escaped, mBodyDone,
                 uBodyDone, stops, stopSignal, uOverlap>>
  /\ UNCHANGED <<upsVars, otherVars>>

\* the Timer armed at lines 570-571 fires and calls collect_and_publish on a
\* thread of its own, whatever the other threads are doing
MTimerFire ==
  /\ timer = "armed"
  /\ timer' = "fired"
  /\ mPc' = "guard"
  /\ mExc' = "none"
  /\ mOverlap' = (mOverlap \/ mPc # "idle")
  /\ UNCHANGED uOverlap
  /\ UNCHANGED <<running, ups_timer, mainPc, uPc, uExc, escaped, mBodyDone,
                 uBodyDone, stops, stopSignal>>
  /\ UNCHANGED <<upsVars, otherVars>>

\* mutant of MGuard: the next Timer armed at the start of the iteration
MGuard_ArmsFirst ==
  /\ mPc = "guard"
  /\ IF running
       THEN /\ mPc' = "measure"
            /\ timer' = "armed"
            /\ UNCHANGED <<escaped, mainPc>>
       ELSE MReturn /\ UNCHANGED timer
  /\ UNCHANGED <<running, ups_timer, uPc, mExc, uExc, mBodyDone, uBodyDone,
                 stops, stopSignal, overlapVars>>
  /\ UNCHANGED <<upsVars, otherVars>>

\* lines 545-546: if not self._running: return
MGuard ==
  /\ mPc = "guard"
  /\ IF running
       THEN /\ mPc' = "measure"
            /\ UNCHANGED <<escaped, mainPc>>
       ELSE MReturn
  /\ UNCHANGED <<running, timer, ups_timer, uPc, mExc, uExc, mBodyDone, uBodyDone,
                 stops, stopSignal>>
  /\ UNCHANGED <<upsVars, otherVars>>
  /\ UNCHANGED overlapVars

\* exceptions a step of the try body can raise: the measure_* methods,
\* publish_data and log_data catch every Exception themselves (lines 308-325,
\* 398-408, 84-120, 501-520, 478-497); check_alerts has no handler of its
\* own (a missing threshold key raises KeyError)
NoRaise == {}

\* one step of the try body (lines 549-565): it completes, or it raises and
\* control goes through the except clause (566-567) to the finally clause
MBodyStep(here, next, raises) ==
  /\ mPc = here
  /\ \/ /\ mPc' = next
        /\ mBodyDone' = (mBodyDone \/ next = "fin_check")
        /\ UNCHANGED mExc
     \/ \E e \in raises :
          /\ mExc' = AfterExcept(e)
          /\ mPc' = "fin_check"
          /\ mBodyDone' = TRUE
  /\ UNCHANGED <<running, timer, ups_timer, mainPc, uPc, uExc, escaped, uBodyDone,
                 stops, stopSignal>>
  /\ UNCHANGED <<upsVars, otherVars>>
  /\ UNCHANGED overlapVars

\* lines 552-557: the six measure_* calls before the battery's
MMeasure == MBodyStep("measure", "measure_ups", NoRaise)

\* the levels the measurement loop's battery read returns here: a critical
\* one, an ordinary one, and the failed read
MeasuredLevels == {NoLevel, 18, 55}

\* mutant of MMeasureUps: the read goes through the guard's bookkeeping, as
\* check_battery's does (line 178)
MMeasureUps_UpdatesGuard ==
  /\ mPc = "measure_ups"
  /\ \E level \in MeasuredLevels :
       /\ sensor_data' = [sensor_data EXCEPT !["ups_battery"] = level]
       /\ last_battery_level' = level
  /\ mPc' = "publish"
  /\ UNCHANGED <<running, timer, ups_timer, mainPc, uPc, mExc, uExc, escaped,
                 mBodyDone, uBodyDone, stops, stopSignal, overlapVars>>
  /\ UNCHANGED <<lowKey, shutdown_triggered, cbPc, cbLevel, cbRet, cbSeq, warnCount,
                 emergCount, shutdownCmds, poweroffCmds, sdOutcomeVars>>
  /\ UNCHANGED <<checks, samplerVars, thresholds, aPc, alerts, alertMessages,
                 telVars, pubVars, logVars>>

\* line 558, measure_ups_battery (lines 410-414): get_battery_level() is
\* called (it reads the hardware and writes no field, lines 79-120) and the
\* level, or None, is stored in the snapshot; nothing of the UPSMonitor is
\* written and check_battery is not called
MMeasureUps ==
  /\ mPc = "measure_ups"
  /\ \E level \in MeasuredLevels :
       sensor_data' = [sensor_data EXCEPT !["ups_battery"] = level]
  /\ mPc' = "publish"
  /\ UNCHANGED <<running, timer, ups_timer, mainPc, uPc, mExc, uExc, escaped,
                 mBodyDone, uBodyDone, stops, stopSignal, overlapVars>>
  /\ UNCHANGED upsVars
  /\ UNCHANGED <<checks, samplerVars, thresholds, aPc, alerts, alertMessages,
                 telVars, pubVars, logVars>>

\* line 561: publish_data(), as one step
MPublish == MBodyStep("publish", "log", NoRaise)

\* line 562: log_data()
MLog == MBodyStep("log", "alerts", NoRaise)

\* lines 563-565: check_alerts(), then the completion log line
MAlerts == MBodyStep("alerts", "fin_check", ExceptionKinds)

\* line 569: finally: if self._running:
MFinCheck ==
  /\ mPc = "fin_check"
  /\ IF running
       THEN /\ mPc' = "create"
            /\ UNCHANGED <<escaped, mainPc>>
       ELSE MReturn
  /\ UNCHANGED <<running, timer, ups_timer, uPc, mExc, uExc, mBodyDone, uBodyDone,
                 stops, stopSignal>>
  /\ UNCHANGED <<upsVars, otherVars>>
  /\ UNCHANGED overlapVars

\* line 570: self._timer = Timer(PUBLISH_INTERVAL, self.collect_and_publish)
MCreate ==
  /\ mPc = "create"
  /\ timer' = "created"
  /\ mPc' = "start"
  /\ UNCHANGED <<running, ups_timer, mainPc, uPc, mExc, uExc, escaped, mBodyDone,
                 uBodyDone, stops, stopSignal>>
  /\ UNCHANGED <<upsVars, otherVars>>
  /\ UNCHANGED overlapVars

\* line 571: self._timer.start(); the callback returns
MStart ==
  /\ mPc = "start"
  /\ timer' = Start(timer)
  /\ MReturn
  /\ UNCHANGED <<running, ups_timer, uPc, mExc, uExc, mBodyDone, uBodyDone, stops, stopSignal>>
  /\ UNCHANGED <<upsVars, otherVars>>
  /\ UNCHANGED overlapVars

(* ups_monitoring_cycle, lines 522-541 *)

\* the callback returns (see MReturn)
UReturn ==
  /\ uPc' = "idle"
  /\ escaped' = (escaped \/ uExc = "pending")
  /\ mainPc' = IF mainPc = "first_u"
                 THEN (IF uExc = "pending" THEN "cleanup" ELSE "wait")
                 ELSE mainPc

\* the Timer armed at lines 540-541 fires and calls ups_monitoring_cycle on a
\* thread of its own, whatever the other threads are doing
UTimerFire ==
  /\ ups_timer = "armed"
  /\ ups_timer' = "fired"
  /\ uPc' = "guard"
  /\ uExc' = "none"
  /\ uOverlap' = (uOverlap \/ uPc # "idle")
  /\ UNCHANGED mOverlap
  /\ UNCHANGED <<running, timer, mainPc, mPc, mExc, escaped, mBodyDone, uBodyDone,
                 stops, stopSignal>>
  /\ UNCHANGED <<upsVars, otherVars>>

\* lines 524-525: if not self._running: return
UGuard ==
  /\ uPc = "guard"
  /\ IF running
       THEN /\ uPc' = "call"
            /\ UNCHANGED <<escaped, mainPc>>
       ELSE UReturn
  /\ UNCHANGED <<running, timer, ups_timer, mPc, mExc, uExc, mBodyDone, uBodyDone,
                 stops, stopSignal>>
  /\ UNCHANGED <<upsVars, otherVars>>
  /\ UNCHANGED overlapVars

\* line 529: battery_ok = self.ups_monitor.check_battery() is entered
UCall ==
  /\ uPc = "call"
  /\ cbPc["ups"] = "idle"
  /\ uPc' = "in_check"
  /\ cbPc' = [cbPc EXCEPT !["ups"] = "read"]
  /\ cbSeq' = [cbSeq EXCEPT !["ups"] = <<>>]
  /\ cbRet' = [cbRet EXCEPT !["ups"] = "none"]
  /\ cbNotify' = [cbNotify EXCEPT !["ups"] = "none"]
  /\ cbPrimary' = [cbPrimary EXCEPT !["ups"] = "none"]
  /\ UNCHANGED <<lowKey, shutdown_triggered, last_battery_level, cbLevel,
                 warnCount, emergCount, shutdownCmds, poweroffCmds, otherVars>>
  /\ UNCHANGED <<running, timer, ups_timer, mainPc, mPc, mExc, uExc, escaped,
                 mBodyDone, uBodyDone, stops, stopSignal>>
  /\ UNCHANGED overlapVars

\* lines 529-537: check_battery returns; False leads to stop() and return,
\* True to the end of the try body, an exception to the except clause
UCheckReturn ==
  /\ uPc = "in_check"
  /\ cbPc["ups"] = "ret"
  /\ cbPc' = [cbPc EXCEPT !["ups"] = "idle"]
  /\ IF cbRet["ups"] = "False"
       THEN /\ uPc' = "stop_flag"
            /\ stopSignal' = TRUE
            /\ UNCHANGED <<uExc, uBodyDone>>
       ELSE /\ uPc' = "fin_check"
            /\ uBodyDone' = TRUE
            /\ UNCHANGED stopSignal
            /\ uExc' = IF cbRet["ups"] = "True" THEN uExc
                       ELSE AfterExcept(cbRet["ups"])
  /\ UNCHANGED <<lowKey, shutdown_triggered, last_battery_level, cbLevel, cbRet,
                 cbSeq, warnCount, emergCount, shutdownCmds, poweroffCmds, otherVars>>
  /\ UNCHANGED <<running, timer, ups_timer, mainPc, mPc, mExc, escaped, mBodyDone,
                 stops>>
  /\ UNCHANGED sdOutcomeVars
  /\ UNCHANGED overlapVars

\* line 533 -> stop(), line 585: self._running = False
UStopFlag ==
  /\ uPc = "stop_flag"
  /\ running' = StopEffect(RunState).running
  /\ uPc' = "stop_cm"
  /\ UNCHANGED <<timer, ups_timer, mainPc, mPc, mExc, uExc, escaped, mBodyDone,
                 uBodyDone, stops, stopSignal>>
  /\ UNCHANGED <<upsVars, otherVars>>
  /\ UNCHANGED overlapVars

\* stop(), lines 586-587: if self._timer: self._timer.cancel()
UStopCancelM ==
  /\ uPc = "stop_cm"
  /\ timer' = StopEffect(RunState).timer
  /\ uPc' = "stop_cu"
  /\ UNCHANGED <<running, ups_timer, mainPc, mPc, mExc, uExc, escaped, mBodyDone,
                 uBodyDone, stops, stopSignal>>
  /\ UNCHANGED <<upsVars, otherVars>>
  /\ UNCHANGED overlapVars

\* stop(), lines 588-590, then line 534: return, into the finally clause
UStopCancelU ==
  /\ uPc = "stop_cu"
  /\ ups_timer' = StopEffect(RunState).ups_timer
  /\ stops' = Bump(stops)
  /\ UNCHANGED stopSignal
  /\ uPc' = "fin_check"
  /\ uBodyDone' = TRUE
  /\ UNCHANGED <<running, timer, mainPc, mPc, mExc, uExc, escaped, mBodyDone>>
  /\ UNCHANGED <<upsVars, otherVars>>
  /\ UNCHANGED overlapVars

\* line 539: finally: if self._running:
UFinCheck ==
  /\ uPc = "fin_check"
  /\ IF running
       THEN /\ uPc' = "create"
            /\ UNCHANGED <<escaped, mainPc>>
       ELSE UReturn
  /\ UNCHANGED <<running, timer, ups_timer, mPc, mExc, uExc, mBodyDone, uBodyDone,
                 stops, stopSignal>>
  /\ UNCHANGED <<upsVars, otherVars>>
  /\ UNCHANGED overlapVars

\* line 540: self._ups_timer = Timer(UPS_CHECK_INTERVAL, self.ups_monitoring_cycle)
UCreate ==
  /\ uPc = "create"
  /\ ups_timer' = "created"
  /\ uPc' = "start"
  /\ UNCHANGED <<running, timer, mainPc, mPc, mExc, uExc, escaped, mBodyDone,
                 uBodyDone, stops, stopSignal>>
  /\ UNCHANGED <<upsVars, otherVars>>
  /\ UNCHANGED overlapVars

\* line 541: self._ups_timer.start(); the callback returns
UStart ==
  /\ uPc = "start"
  /\ ups_timer' = Start(ups_timer)
  /\ UReturn
  /\ UNCHANGED <<running, timer, mPc, mExc, uExc, mBodyDone, uBodyDone, stops, stopSignal>>
  /\ UNCHANGED <<upsVars, otherVars>>
  /\ UNCHANGED overlapVars

(* the daemon *)

Init ==
  /\ UpsInit
  /\ checks = <<>>
  /\ SchedInit
  /\ SamplerIdle
  /\ AlertsIdle
  /\ TelemetryIdle
  /\ PublishIdle
  /\ LogIdle

MainStep ==
  \/ Run
  \/ RunCallUps
  \/ MainWaitExit
  \/ MainStopFlag
  \/ MainStopCancelM
  \/ MainStopCancelU
  \/ MainGpioCleanup

MeasureStep ==
  \/ MTimerFire
  \/ MGuard
  \/ MMeasure
  \/ MMeasureUps
  \/ MPublish
  \/ MLog
  \/ MAlerts
  \/ MFinCheck
  \/ MCreate
  \/ MStart

UpsStep ==
  \/ UTimerFire
  \/ UGuard
  \/ UCall
  \/ CbRead("ups")
  \/ CbDecide("ups")
  \/ CbWarn("ups")
  \/ SdGuard("ups")
  \/ SdSet("ups")
  \/ SdNotify("ups")
  \/ SdSleep("ups")
  \/ SdCmd("ups")
  \/ SdFallback("ups")
  \/ UCheckReturn
  \/ UStopFlag
  \/ UStopCancelM
  \/ UStopCancelU
  \/ UFinCheck
  \/ UCreate
  \/ UStart

Next ==
  \/ MainStep
  \/ Interrupt
  \/ MeasureStep
  \/ UpsStep

Spec == Init /\ [][Next]_vars

\* every thread that can take a step eventually takes one, and an armed Timer
\* eventually fires; nothing obliges a KeyboardInterrupt to arrive
FairSpec ==
  /\ Spec
  /\ WF_vars(MainStep)
  /\ WF_vars(MeasureStep)
  /\ WF_vars(UpsStep)

(* -------------- SpecSampler: one get_filtered_sample call -------------- *)

SamplerOnlyInit ==
  /\ UpsInit
  /\ checks = <<>>
  /\ SchedInit
  /\ SamplerInit
  /\ AlertsIdle
  /\ TelemetryIdle
  /\ PublishIdle
  /\ LogIdle

SamplerNext ==
  \/ SampleTake
  \/ SampleFinish

SpecSampler == SamplerOnlyInit /\ [][SamplerNext]_vars

(* ------------------ SpecAlerts: one check_alerts call ------------------ *)

AlertsOnlyInit ==
  /\ UpsInit
  /\ checks = <<>>
  /\ SchedInit
  /\ SamplerIdle
  /\ AlertsInit
  /\ TelemetryIdle
  /\ PublishIdle
  /\ LogIdle

AlertsNext ==
  \/ AlertsEvaluate
  \/ AlertsNotify

SpecAlerts == AlertsOnlyInit /\ [][AlertsNext]_vars

(* --------------- SpecTelemetry: successive send_telemetry calls -------- *)

TelemetryOnlyInit ==
  /\ UpsInit
  /\ checks = <<>>
  /\ SchedInit
  /\ SamplerIdle
  /\ AlertsIdle
  /\ TelemetryInit
  /\ PublishIdle
  /\ LogIdle

TelemetryNext ==
  \/ TelCall
  \/ TelLookup
  \/ TelPost
  \/ TelReturn

SpecTelemetry == TelemetryOnlyInit /\ [][TelemetryNext]_vars

(* ------- SpecPublish: one publish_data pass and the rest of the body ---- *)

\* the first measurement iteration has measured its snapshot and is about to
\* call publish_data
PublishOnlyInit ==
  /\ UpsInit
  /\ checks = <<>>
  /\ running = TRUE
  /\ timer = "none"
  /\ ups_timer = "none"
  /\ mainPc = "first_m"
  /\ mPc = "publish"
  /\ uPc = "idle"
  /\ mExc = "none"
  /\ uExc = "none"
  /\ escaped = FALSE
  /\ mBodyDone = FALSE
  /\ uBodyDone = FALSE
  /\ stops = 0
  /\ stopSignal = FALSE
  /\ mOverlap = FALSE
  /\ uOverlap = FALSE
  /\ SamplerIdle
  /\ thresholds = ThresholdsOf(OrdinaryPair, OrdinaryPair, OrdinaryPair)
  /\ aPc = "idle"
  /\ alerts = <<>>
  /\ alertMessages = 0
  /\ tPc = "idle"
  /\ tName = "temperature"
  /\ tPosts = 0
  /\ tResp = NoResponse
  /\ tRet = "none"
  /\ sends = <<>>
  /\ PublishInit
  /\ LogIdle

PublishNext ==
  \/ PubBegin
  \/ PubItem
  \/ PubSummary
  \/ MLog
  \/ MAlerts

SpecPublish == PublishOnlyInit /\ [][PublishNext]_vars

(* ----------------------- SpecLog: one log_data call --------------------- *)

\* collect_and_publish of the first iteration is about to call log_data
\* (line 562); the snapshot is whatever the measurements left
LogOnlyInit ==
  /\ UpsInit
  /\ checks = <<>>
  /\ running = TRUE
  /\ timer = "none"
  /\ ups_timer = "none"
  /\ mainPc = "first_m"
  /\ mPc = "log"
  /\ uPc = "idle"
  /\ mExc = "none"
  /\ uExc = "none"
  /\ escaped = FALSE
  /\ mBodyDone = FALSE
  /\ uBodyDone = FALSE
  /\ stops = 0
  /\ stopSignal = FALSE
  /\ mOverlap = FALSE
  /\ uOverlap = FALSE
  /\ SamplerIdle
  /\ sensor_data \in LogSnapshots
  /\ thresholds = ThresholdsOf(OrdinaryPair, OrdinaryPair, OrdinaryPair)
  /\ aPc = "idle"
  /\ alerts = <<>>
  /\ alertMessages = 0
  /\ TelemetryIdle
  /\ PublishIdle
  /\ LogIdle

LogNext ==
  \/ LogCall
  \/ LogFormat
  \/ LogAppend
  \/ LogBackup
  \/ LogReturn

SpecLog == LogOnlyInit /\ [][LogNext]_vars

(* --------------------- SpecUPS: successive calls ----------------------- *)

\* the driver calls ups.check_battery()
DriverCall ==
  /\ Len(checks) < MaxChecks
  /\ cbPc["ups"] = "idle"
  /\ cbPc' = [cbPc EXCEPT !["ups"] = "read"]
  /\ cbSeq' = [cbSeq EXCEPT !["ups"] = <<>>]
  /\ cbRet' = [cbRet EXCEPT !["ups"] = "none"]
  /\ cbNotify' = [cbNotify EXCEPT !["ups"] = "none"]
  /\ cbPrimary' = [cbPrimary EXCEPT !["ups"] = "none"]
  /\ UNCHANGED <<lowKey, shutdown_triggered, last_battery_level, cbLevel,
                 warnCount, emergCount, shutdownCmds, poweroffCmds, checks>>
  /\ UNCHANGED <<schedVars, samplerVars, cycleVars>>

\* the call returns (or raises) to the driver, which records it
DriverReturn ==
  /\ cbPc["ups"] = "ret"
  /\ checks' = Append(checks, [level |-> cbLevel["ups"], ret |-> cbRet["ups"],
                               effects |-> cbSeq["ups"],
                               notify |-> cbNotify["ups"],
                               primary |-> cbPrimary["ups"],
                               triggered |-> shutdown_triggered])
  /\ cbPc' = [cbPc EXCEPT !["ups"] = "idle"]
  /\ UNCHANGED <<lowKey, shutdown_triggered, last_battery_level, cbLevel, cbRet,
                 cbSeq, warnCount, emergCount, shutdownCmds, poweroffCmds>>
  /\ UNCHANGED <<schedVars, samplerVars, cycleVars>>
  /\ UNCHANGED sdOutcomeVars

UpsOnlyInit ==
  /\ UpsInit
  /\ checks = <<>>
  /\ SchedInit
  /\ SamplerIdle
  /\ AlertsIdle
  /\ SamplerIdle
  /\ TelemetryIdle
  /\ PublishIdle
  /\ LogIdle

UpsNext ==
  \/ DriverCall
  \/ CbRead("ups")
  \/ CbDecide("ups")
  \/ CbWarn("ups")
  \/ SdGuard("ups")
  \/ SdSet("ups")
  \/ SdNotify("ups")
  \/ SdSleep("ups")
  \/ SdCmd("ups")
  \/ SdFallback("ups")
  \/ DriverReturn

SpecUPS == UpsOnlyInit /\ [][UpsNext]_vars

(* ------ SpecRace: two threads, one check_battery call each ------------- *)

\* thread t calls ups.check_battery(); each thread makes one call
RaceCall(t) ==
  /\ cbPc[t] = "idle"
  /\ cbRet[t] = "none"
  /\ cbPc' = [cbPc EXCEPT ![t] = "read"]
  /\ UNCHANGED <<lowKey, shutdown_triggered, last_battery_level, cbLevel, cbRet,
                 cbSeq, warnCount, emergCount, shutdownCmds, poweroffCmds>>
  /\ UNCHANGED notUps
  /\ UNCHANGED sdOutcomeVars

\* the call of thread t returns (or raises)
RaceReturn(t) ==
  /\ cbPc[t] = "ret"
  /\ cbPc' = [cbPc EXCEPT ![t] = "idle"]
  /\ UNCHANGED <<lowKey, shutdown_triggered, last_battery_level, cbLevel, cbRet,
                 cbSeq, warnCount, emergCount, shutdownCmds, poweroffCmds>>
  /\ UNCHANGED notUps
  /\ UNCHANGED sdOutcomeVars

RaceNext ==
  \E t \in Callers :
    \/ RaceCall(t)
    \/ CbRead(t)
    \/ CbDecide(t)
    \/ CbWarn(t)
    \/ SdGuard(t)
    \/ SdSet(t)
    \/ SdNotify(t)
    \/ SdSleep(t)
    \/ SdCmd(t)
    \/ SdFallback(t)
    \/ RaceReturn(t)

SpecRace == UpsOnlyInit /\ [][RaceNext]_vars

(* ------------------------- claims on SpecUPS --------------------------- *)

\* the effects of a whole shutdown sequence: notification, grace wait,
\* shutdown command, and the fallback when the command failed
ShutdownSequences ==
  { <<"emergency", "grace", "shutdown">>,
    <<"emergency", "grace", "shutdown", "poweroff">> }

\* completed calls whose reading was at or below the shutdown threshold
CriticalCalls ==
  { i \in 1..Len(checks) :
      checks[i].level # NoLevel /\ checks[i].level <= ShutdownThreshold }

\* shutdown_triggered as call i found it
TriggeredBefore(i) == IF i = 1 THEN FALSE ELSE checks[i - 1].triggered

\* C1: across any sequence of check_battery calls the shutdown sequence
\* (emergency notification, grace wait, shutdown command) runs at most once:
\* the emergency notification and each command are issued at most once, and
\* every call that enters safe_shutdown with shutdown_triggered already true
\* has no effect at all.
C1_ShutdownAtMostOnce ==
  /\ emergCount <= 1
  /\ shutdownCmds <= 1
  /\ poweroffCmds <= 1
  /\ \A i \in CriticalCalls :
       IF TriggeredBefore(i)
         THEN checks[i].effects = <<>>
         ELSE checks[i].effects \in ShutdownSequences

\* C1 witness: three calls, the last two both at or below the threshold; the
\* sequence ran in the second and the third was a no-op
C1_Witness ==
  /\ Len(checks) = 3
  /\ {2, 3} \subseteq CriticalCalls
  /\ checks[2].effects \in ShutdownSequences
  /\ checks[3].effects = <<>>
  /\ shutdownCmds = 1

\* the scenario of C7: thresholds 25 and 20 configured, readings 55, 30, 18
C7_Scenario ==
  /\ lowKey
  /\ UpsBatteryLow = 25
  /\ ShutdownThreshold = 20
  /\ Len(checks) = 3
  /\ checks[1].level = 55
  /\ checks[2].level = 30
  /\ checks[3].level = 18

\* C7 as stated: check 1 takes no action, check 2 sends a low-battery
\* warning, check 3 runs the shutdown sequence once and returns False.
C7_Original ==
  C7_Scenario =>
    /\ checks[1].effects = <<>>
    /\ checks[2].effects = <<"warn">>
    /\ checks[3].effects \in ShutdownSequences
    /\ checks[3].ret = "False"

\* C7 amended: check 1 takes no action and returns True; check 2 (30 is above
\* the warning threshold 25) also sends nothing and returns True; check 3
\* runs the shutdown sequence exactly once and returns False.
C7_ScenarioAmended ==
  C7_Scenario =>
    /\ checks[1].effects = <<>>
    /\ checks[1].ret = "True"
    /\ checks[2].effects = <<>>
    /\ checks[2].ret = "True"
    /\ checks[3].effects \in ShutdownSequences
    /\ checks[3].ret = "False"
    /\ emergCount = 1
    /\ shutdownCmds = 1

\* C7 witness: the scenario has been run to its end
C7_Witness ==
  /\ C7_Scenario
  /\ checks[3].ret = "False"
  /\ shutdown_triggered

\* C8: with the warning threshold configured, every call whose reading is
\* strictly above shutdown_threshold and at or below ups_battery_low sends
\* exactly one low-battery notification, returns True and leaves
\* shutdown_triggered as it was; every call whose reading is above
\* ups_battery_low sends nothing.
C8_WarningBand ==
  lowKey =>
    \A i \in 1..Len(checks) :
      /\ (checks[i].level > ShutdownThreshold /\ checks[i].level <= UpsBatteryLow)
           => /\ checks[i].effects = <<"warn">>
              /\ checks[i].ret = "True"
              /\ checks[i].triggered = TriggeredBefore(i)
      /\ checks[i].level > UpsBatteryLow
           => /\ checks[i].effects = <<>>
              /\ checks[i].ret = "True"

\* C8 witness: two consecutive calls in the band (one of them at the warning
\* threshold itself) each sent a warning, and a call above the band sent none
C8_Witness ==
  /\ lowKey
  /\ Len(checks) = 3
  /\ checks[1].level = 21
  /\ checks[2].level = UpsBatteryLow
  /\ checks[3].level = 26
  /\ checks[1].effects = <<"warn">>
  /\ checks[2].effects = <<"warn">>
  /\ checks[3].effects = <<>>
  /\ warnCount = 2


\* s is an initial part of full
IsPrefix(s, full) == Len(s) <= Len(full) /\ s = SubSeq(full, 1, Len(s))

\* the steps of the shutdown sequence in the order C18 gives them
OrderedSequence == <<"emergency", "grace", "shutdown", "poweroff">>

\* completed calls that executed the shutdown sequence
SequenceCalls == { i \in 1..Len(checks) : checks[i].notify # "none" }

\* C18: in the shutdown sequence the emergency notification is attempted
\* first, then the grace period elapses, then the shutdown command is
\* issued, and the power-off command comes after it and only when the
\* shutdown command failed; however the notification went (delivered,
\* rejected by the provider, or failed), the sequence goes on and the
\* shutdown command is issued.
C18_ShutdownOrdering ==
  /\ cbSeq["ups"] # <<"warn">> => IsPrefix(cbSeq["ups"], OrderedSequence)
  /\ cbPc["ups"] = "sd_fallback" => cbPrimary["ups"] = "failed"
  /\ \A i \in SequenceCalls :
       /\ checks[i].notify \in NotifyOutcomes
       /\ checks[i].primary = "ok" => checks[i].effects = SubSeq(OrderedSequence, 1, 3)
       /\ checks[i].primary = "failed" => checks[i].effects = OrderedSequence
       /\ checks[i].primary \in {"ok", "failed"}
  /\ \A i \in CriticalCalls : ~TriggeredBefore(i) => i \in SequenceCalls

\* C18 witness: a call ran the sequence with the notification failed and the
\* shutdown command failed: all four steps were taken, in order
C18_Witness ==
  /\ Len(checks) >= 1
  /\ checks[Len(checks)].notify = "failed"
  /\ checks[Len(checks)].primary = "failed"
  /\ checks[Len(checks)].effects = OrderedSequence
  /\ checks[Len(checks)].ret = "False"

\* C19 as stated: on return from any call of any sequence of calls, the
\* result is False if and only if shutdown_triggered is true; a call whose
\* reading is unknown returns True only while shutdown has not been
\* triggered.
C19_Original ==
  \A i \in 1..Len(checks) :
    /\ checks[i].ret = "False" <=> checks[i].triggered
    /\ (checks[i].level = NoLevel /\ checks[i].ret = "True") => ~checks[i].triggered

\* C19 amended: a call returns False exactly when its own reading is at or
\* below shutdown_threshold, and shutdown_triggered is then true on return;
\* a call whose reading is unknown takes no action and returns True, whether
\* or not shutdown has been triggered; no call changes shutdown_triggered
\* unless it returns False.
C19_ReturnValue ==
  \A i \in 1..Len(checks) :
    /\ checks[i].ret = "False" <=> i \in CriticalCalls
    /\ checks[i].ret = "False" => checks[i].triggered
    /\ checks[i].level = NoLevel =>
         (checks[i].ret = "True" /\ checks[i].effects = <<>>)
    /\ checks[i].ret # "False" => checks[i].triggered = TriggeredBefore(i)

\* C19 witness: the first call ran the shutdown sequence and returned False;
\* the second, with an unknown reading, and the third, with a reading above
\* both thresholds, returned True with shutdown_triggered true
C19_Witness ==
  /\ Len(checks) = 3
  /\ checks[1].ret = "False" /\ checks[1].triggered
  /\ checks[2].level = NoLevel /\ checks[2].ret = "True" /\ checks[2].triggered
  /\ checks[3].level = 55 /\ checks[3].ret = "True" /\ checks[3].triggered

(* ------------------------ claims on SpecAlerts ------------------------- *)

TwoSidedMetrics == {"temperature", "pH", "level"}
PumpMetrics == {"recirc_pump", "dispense_pump"}

\* the configured bounds of a two-sided metric
LowBound(m) ==
  IF m = "temperature" THEN thresholds.temp_low
  ELSE IF m = "pH" THEN thresholds.ph_low
  ELSE thresholds.level_low

HighBound(m) ==
  IF m = "temperature" THEN thresholds.temp_high
  ELSE IF m = "pH" THEN thresholds.ph_high
  ELSE thresholds.level_high

Present(m) == sensor_data[m] # NoValue

ViolatesLow(m) == Present(m) /\ sensor_data[m] < LowBound(m)
ViolatesHigh(m) == Present(m) /\ sensor_data[m] > HighBound(m)

\* a metric is outside its bound, as the claims state it: a two-sided metric
\* below its low or above its high bound, a one-sided metric strictly below
\* its single bound; conductivity has no bound
OutsideAsStated(m) ==
  IF m \in TwoSidedMetrics THEN ViolatesLow(m) \/ ViolatesHigh(m)
  ELSE IF m \in PumpMetrics THEN Present(m) /\ sensor_data[m] < thresholds.pump_current_low
  ELSE IF m = "ups_battery" THEN Present(m) /\ sensor_data[m] < UpsBatteryLow
  ELSE FALSE

\* the same, with the battery outside its bound when at or below it
OutsideInclusiveBattery(m) ==
  IF m = "ups_battery" THEN Present(m) /\ sensor_data[m] <= UpsBatteryLow
  ELSE OutsideAsStated(m)

AlertedMetrics == {alerts[i].metric : i \in 1..Len(alerts)}

\* the place of a sensor in the declaration order
Position(m) == CHOOSE i \in 1..Len(Sensors) : Sensors[i] = m

\* the alert list has been built (every threshold key being configured)
Evaluated == lowKey /\ aPc \in {"evaluated", "done"}

\* the statement of C11 for a given reading of "outside its bound"
AlertContract(Outside(_)) ==
  Evaluated =>
    /\ (\A m \in SensorNames : ~Outside(m)) => alerts = <<>>
    /\ \A m \in SensorNames :
         (Outside(m) /\ \A n \in SensorNames \ {m} : ~Outside(n))
           => (Len(alerts) = 1 /\ alerts[1].metric = m)
    /\ \A m \in TwoSidedMetrics :
         /\ Cardinality({i \in 1..Len(alerts) : alerts[i].metric = m}) <= 1
         /\ (ViolatesLow(m) /\ ViolatesHigh(m))
              => [metric |-> m, bound |-> "low"] \in {alerts[i] : i \in 1..Len(alerts)}
    /\ \A m \in SensorNames : ~Present(m) => m \notin AlertedMetrics
    /\ \A i, j \in 1..Len(alerts) :
         i < j => Position(alerts[i].metric) < Position(alerts[j].metric)

\* C11 as stated: all values within their bounds give no alert; exactly one
\* metric outside its bound gives exactly one alert, for that metric; a
\* two-sided metric gives at most one alert, the low one when both its bounds
\* are violated; an absent value gives none; alerts are in declaration order
\* (a one-sided metric being outside its bound when strictly below it).
C11_Original == AlertContract(OutsideAsStated)

\* C11 amended: the same, where the UPS battery is outside its bound when it
\* is at or below ups_battery_low (a battery value equal to the threshold
\* gives an alert).
C11_AlertEvaluation == AlertContract(OutsideInclusiveBattery)

\* C11 witness: the temperature violates both of its (inverted) bounds and
\* the level is above its high bound, pH is absent; the alerts are the
\* temperature's low alert and then the level's high alert, sent as one
\* notification
C11_Witness ==
  /\ Evaluated
  /\ aPc = "done"
  /\ ViolatesLow("temperature") /\ ViolatesHigh("temperature")
  /\ ~Present("pH")
  /\ alerts = <<[metric |-> "temperature", bound |-> "low"],
                [metric |-> "level", bound |-> "high"]>>
  /\ alertMessages = 1

\* C12 as stated: recirc_pump, dispense_pump and ups_battery give an alert
\* only when the value is strictly below the metric's low bound; a value
\* equal to the bound or above it gives none.
C12_Original ==
  Evaluated =>
    /\ \A m \in PumpMetrics :
         m \in AlertedMetrics <=> (Present(m) /\ sensor_data[m] < thresholds.pump_current_low)
    /\ "ups_battery" \in AlertedMetrics
         <=> (Present("ups_battery") /\ sensor_data["ups_battery"] < UpsBatteryLow)

\* C12 amended: recirc_pump and dispense_pump give an alert exactly when the
\* value is strictly below pump_current_low; ups_battery gives an alert
\* exactly when the value is at or below ups_battery_low. Each alert is a
\* low-bound alert.
C12_OneSidedMetrics ==
  Evaluated =>
    /\ \A m \in PumpMetrics :
         m \in AlertedMetrics <=> (Present(m) /\ sensor_data[m] < thresholds.pump_current_low)
    /\ "ups_battery" \in AlertedMetrics
         <=> (Present("ups_battery") /\ sensor_data["ups_battery"] <= UpsBatteryLow)
    /\ \A i \in 1..Len(alerts) :
         alerts[i].metric \in PumpMetrics \cup {"ups_battery"} => alerts[i].bound = "low"

\* C12 witness: one pump below its bound, the other at its bound, the battery
\* at its threshold: the first pump and the battery give the two alerts
C12_Witness ==
  /\ Evaluated
  /\ sensor_data["recirc_pump"] = 1
  /\ sensor_data["dispense_pump"] = thresholds.pump_current_low
  /\ sensor_data["ups_battery"] = UpsBatteryLow
  /\ alerts = <<[metric |-> "recirc_pump", bound |-> "low"],
                [metric |-> "ups_battery", bound |-> "low"]>>

(* ---------------------- claims on SpecTelemetry ------------------------ *)

\* C13: a send_telemetry call for a device name with no configured (or an
\* empty) credential returns False and makes no POST; a call with a
\* credential makes exactly one POST and returns True exactly when the POST
\* answers 200 or 201; for every other status and for every exception of the
\* POST it returns False, and no call ever raises.
C13_TelemetryOutcome ==
  \A i \in 1..Len(sends) :
    LET c == sends[i]
    IN  /\ c.ret \in {"True", "False"}
        /\ (c.token \in {NoToken, ""}) => (c.ret = "False" /\ c.posts = 0)
        /\ (c.token \notin {NoToken, ""}) =>
             /\ c.posts = 1
             /\ c.ret = "True" <=> (c.resp.kind = "status" /\ c.resp.code \in {200, 201})

\* C13 witness: one call on a device whose credential is empty returned False
\* without a POST, and one call with a credential got 204 and returned False
C13_Witness ==
  /\ Len(sends) = 2
  /\ sends[1].token = "" /\ sends[1].ret = "False" /\ sends[1].posts = 0
  /\ sends[2].token = "token" /\ sends[2].resp.kind = "status"
  /\ sends[2].resp.code = 204 /\ sends[2].ret = "False"

(* ----------------------- claims on SpecPublish ------------------------- *)

\* the sensors the pass has gone past
Passed == {Sensors[i] : i \in 1..(pIndex - 1)}

\* C14: in a publish_data pass every sensor whose snapshot value is present
\* gets exactly one publish attempt and every absent sensor none, whichever
\* earlier attempts of the pass failed (the pass always reaches the last
\* sensor); and whatever failed, the cycle goes on from publish_data to
\* log_data and from log_data to check_alerts with no exception raised.
C14_PublishIsolation ==
  /\ [](pPc = "loop" =>
          \A n \in Passed : attempts[n] = IF sensor_data[n] # NoValue THEN 1 ELSE 0)
  /\ [](pPc = "done" =>
          /\ \A n \in SensorNames : attempts[n] = IF sensor_data[n] # NoValue THEN 1 ELSE 0
          /\ total_sensors = Cardinality({n \in SensorNames : sensor_data[n] # NoValue})
          /\ mPc \in {"log", "alerts", "fin_check"})
  /\ [][(pPc = "loop" /\ pPc' = "done") => (pIndex > Len(Sensors) /\ mPc' = "log")]_vars
  /\ [][(mPc = "log" /\ mPc' # mPc) => (mPc' = "alerts" /\ mExc' = "none")]_vars
  /\ [](mPc \in {"publish", "log", "alerts"} => mExc = "none")

\* C14 witness: the first sensor's attempt failed (its credential is empty),
\* a later sensor is absent, the other five were each attempted once and
\* two of them succeeded, and the cycle has been through log_data and
\* check_alerts
C14_Witness ==
  /\ pPc = "done"
  /\ device_tokens["temperature"] = ""
  /\ attempts["temperature"] = 1
  /\ sensor_data["level"] = NoValue
  /\ total_sensors = 6
  /\ success_count = 2
  /\ mPc = "fin_check"
  /\ mExc = "none"

(* ------------------------- claims on SpecRace -------------------------- *)

\* thread t's call has returned
Returned(t) == cbPc[t] = "idle" /\ cbRet[t] # "none"

\* thread t's call read a level at or below the shutdown threshold
SawCritical(t) == cbLevel[t] # NoLevel /\ cbLevel[t] <= ShutdownThreshold

\* C15 as stated: when two threads call check_battery concurrently and both
\* read a level at or below shutdown_threshold, the shutdown sequence runs
\* exactly once in every interleaving: one emergency notification and one
\* shutdown command are issued, and one of the two calls does nothing.
C15_ConcurrentShutdownOnce ==
  /\ emergCount <= 1
  /\ shutdownCmds <= 1
  /\ (\A t \in Callers : Returned(t) /\ SawCritical(t)) =>
       /\ emergCount = 1
       /\ shutdownCmds = 1
       /\ \E t \in Callers : cbSeq[t] = <<>>

(* ----------------------- claims on SpecSampler ------------------------- *)

\* the least and the greatest element of a non-empty sequence
SeqMin(s) == CHOOSE x \in {s[i] : i \in 1..Len(s)} : \A j \in 1..Len(s) : x <= s[j]
SeqMax(s) == CHOOSE x \in {s[i] : i \in 1..Len(s)} : \A j \in 1..Len(s) : x >= s[j]

\* s without one occurrence of x
RECURSIVE Without(_, _)
Without(s, x) ==
  IF s = <<>> THEN <<>>
  ELSE IF Head(s) = x THEN Tail(s)
  ELSE <<Head(s)>> \o Without(Tail(s), x)

\* s with its d lowest, and its d highest, elements removed (Len(s) >= d)
RECURSIVE DropLowest(_, _)
DropLowest(s, d) == IF d = 0 THEN s ELSE DropLowest(Without(s, SeqMin(s)), d - 1)

RECURSIVE DropHighest(_, _)
DropHighest(s, d) == IF d = 0 THEN s ELSE DropHighest(Without(s, SeqMax(s)), d - 1)

\* the readings the trimmed mean is taken over; none when Len(r) <= 2d
Kept(r, d) == IF Len(r) >= 2 * d THEN DropHighest(DropLowest(r, d), d) ELSE <<>>

\* res is a value within half a hundredth of the mean of the readings in kept
IsRoundedMeanOf(res, kept) ==
  /\ res.kind = "value"
  /\ kept # <<>>
  /\ LET diff == res.v * Len(kept) - 100 * SeqSum(kept)
     IN  2 * diff <= Len(kept) /\ 2 * diff >= 0 - Len(kept)

\* a call has returned and sensor_func() never raised in it
ReturnedCleanly == sPc = "done" /\ ~sRaised

\* C9 as stated: with k non-absent readings the call returns None if
\* k < N - 2D, and otherwise returns a value, the mean (to two decimals) of
\* the sorted readings with the lowest D and the highest D removed.
C9_Original ==
  ReturnedCleanly =>
    IF Len(readings) < samples - 2 * discard
      THEN sResult = NoneResult
      ELSE IsRoundedMeanOf(sResult, Kept(readings, discard))

\* C9 amended (N >= 1): the call returns None if k < N - 2D, or if no
\* reading is left after the trimming (k <= 2D with D > 0), or if a
\* sensor_func() call raised; otherwise it returns the mean, rounded to two
\* decimals, of the k sorted readings with the lowest D and the highest D
\* removed.
C9_TrimmedMean ==
  sPc = "done" =>
    IF \/ sRaised
       \/ Len(readings) < samples - 2 * discard
       \/ Len(readings) <= 2 * discard /\ discard > 0
      THEN sResult = NoneResult
      ELSE IsRoundedMeanOf(sResult, Kept(readings, discard))

\* C9 witness: a batch with one absent sample and an outlier at each end, no
\* raise, and a mean that needs rounding: 5 samples, discard 1, readings
\* 10, 1, 2, 2 give the mean of <<2, 2>>
C9_Witness ==
  /\ ReturnedCleanly
  /\ samples = 5
  /\ discard = 1
  /\ readings = <<10, 1, 2, 2>>
  /\ sResult = Value(200)

\* C10 as stated: when sensor_func() raises during one sample, the remaining
\* samples of the batch are still taken, and the batch yields a value when at
\* least N - 2D samples succeeded (and something is left after the trimming).
C10_RaiseIsAbsentReading ==
  (sPc = "done" /\ sRaised) =>
    /\ sTaken = samples
    /\ (/\ Len(readings) >= samples - 2 * discard
        /\ Kept(readings, discard) # <<>>)
         => IsRoundedMeanOf(sResult, Kept(readings, discard))


(* --------------------- claims on the daemon (Spec) --------------------- *)

\* a Timer that will call its function, or is about to be started
Outstanding(h) == h \in {"created", "armed"}

\* neither loop is executing or will execute again
Quiet ==
  /\ ~running
  /\ mPc = "idle"
  /\ uPc = "idle"
  /\ ~Outstanding(timer)
  /\ ~Outstanding(ups_timer)

\* C2: whenever check_battery returns False to ups_monitoring_cycle, both
\* loops are halted: from then on the UPS loop creates no new Timer; once
\* _running is false no cycle body (measurement or UPS check) begins; and
\* eventually _running is false, no callback is executing and no Timer is
\* outstanding, for good.
C2_StopHaltsBothLoops ==
  /\ [][stopSignal => (Outstanding(ups_timer') => ups_timer' = ups_timer)]_vars
  /\ [][(stopSignal /\ ~running) =>
          /\ (mPc' = "measure" => mPc = "measure")
          /\ (uPc' = "call" => uPc = "call")]_vars
  /\ [](stopSignal => <>[]Quiet)

\* C2 witness: the UPS check has signalled stop, the measurement Timer had
\* fired at least once, and everything has come to rest with the main thread
\* through cleanup
C2_Witness ==
  /\ stopSignal
  /\ Quiet
  /\ mBodyDone
  /\ timer = "fired"
  /\ mainPc = "done"

\* C3: an exception raised by a step of the measurement iteration, or by the
\* UPS check, is caught inside the iteration: control reaches the finally
\* clause with the exception handled, the finally clause goes on to create
\* and start the next Timer whenever it finds _running true, and no
\* exception ever leaves a loop callback.
C3_FaultIsolation ==
  /\ [](~escaped)
  /\ [][(mExc' # mExc /\ mExc' # "none") => (mExc' = "handled" /\ mPc' = "fin_check")]_vars
  /\ [][(uExc' # uExc /\ uExc' # "none") => (uExc' = "handled" /\ uPc' = "fin_check")]_vars
  /\ [][(mPc = "fin_check" /\ running /\ mPc' # mPc) => mPc' = "create"]_vars
  /\ [][(uPc = "fin_check" /\ running /\ uPc' # uPc) => uPc' = "create"]_vars
  /\ [][(mPc = "create" /\ mPc' # mPc) => (timer' = "created" /\ mPc' = "start")]_vars
  /\ [][(uPc = "create" /\ uPc' # uPc) => (ups_timer' = "created" /\ uPc' = "start")]_vars
  /\ [][(mPc = "start" /\ mPc' # mPc /\ timer = "created") => timer' = "armed"]_vars
  /\ [][(uPc = "start" /\ uPc' # uPc /\ ups_timer = "created") => ups_timer' = "armed"]_vars

\* C3 witness: a measurement iteration and a UPS iteration have both failed,
\* both callbacks have returned, and both loops have their next Timer armed
C3_Witness ==
  /\ mExc = "handled"
  /\ uExc = "handled"
  /\ mPc = "idle"
  /\ uPc = "idle"
  /\ timer = "armed"
  /\ ups_timer = "armed"
  /\ running

\* C4 as stated: once a stop() call has completed, neither loop has a Timer
\* created or armed: no Timer is outstanding that stop() did not cancel.
C4_NoTimerAfterStop ==
  stops >= 1 => (~Outstanding(timer) /\ ~Outstanding(ups_timer))

\* C5 as stated: the first measurement iteration and the first UPS check
\* iteration have both finished their work before either loop's Timer exists.
C5_Original ==
  (timer # "none" \/ ups_timer # "none") => (mBodyDone /\ uBodyDone)

\* C5 amended: run() sets _running and then runs the first measurement
\* iteration and, after it has returned, the first UPS check iteration, both
\* on the calling thread; each loop's Timer is created only at the end of
\* that loop's own first iteration, so the measurement Timer exists before
\* the first UPS check begins.
C5_FirstIterations ==
  /\ mainPc = "start" => (~running /\ timer = "none" /\ ups_timer = "none")
  /\ mainPc \in {"first_m", "call_u"} => running
  /\ mainPc = "first_m" => (mPc # "idle" /\ uPc = "idle" /\ ~uBodyDone
                              /\ ups_timer = "none")
  /\ mainPc = "call_u" => (timer # "none" /\ mBodyDone /\ uPc = "idle" /\ ~uBodyDone)
  /\ mainPc = "first_u" => uPc # "idle"
  /\ timer # "none" => mBodyDone
  /\ ups_timer # "none" => (uBodyDone /\ mBodyDone /\ timer # "none")

\* C5 witness: the measurement Timer has fired and the second measurement
\* iteration is under way while the first UPS check, still on the main
\* thread, is in its battery check
C5_Witness ==
  /\ mainPc = "first_u"
  /\ uPc = "in_check"
  /\ ~uBodyDone
  /\ timer = "fired"
  /\ mPc = "measure"

\* a loop is inside a blocking operation of its iteration: the sampling
\* delays and the HTTP publish of the measurement loop; the battery check of
\* the UPS loop, the grace wait of safe_shutdown included
MBlocked == mPc \in {"measure", "measure_ups", "publish"}
UBlocked == uPc = "in_check"

\* the UPS loop's iteration is due: its Timer has run out, or run() has been
\* entered and has still to make its call of ups_monitoring_cycle
UDue == ups_timer = "armed" \/ mainPc \in {"first_m", "call_u"}

\* the measurement loop's iteration is due: its Timer has run out
MDue == timer = "armed"

\* C16 as stated: from run() onward, while the measurement loop is in a
\* blocking operation a due UPS check iteration can begin, and while the UPS
\* loop is blocked (the grace wait included) a due measurement iteration can
\* begin.
C16_Original ==
  /\ (MBlocked /\ UDue) => ENABLED (UTimerFire \/ RunCallUps)
  /\ (UBlocked /\ MDue) => ENABLED MTimerFire

\* C16 amended: for the iterations the Timers start, neither loop blocks
\* the other: while the measurement loop is in a blocking operation a UPS
\* iteration whose Timer has run out can begin and one under way can go on,
\* and while the UPS loop is blocked (the grace wait included) a measurement
\* iteration whose Timer has run out can begin and one under way can go on.
\* The first UPS check iteration is the exception: run() calls it on the
\* calling thread, and only after the first measurement iteration has
\* returned.
C16_LoopsIndependent ==
  /\ (MBlocked /\ ups_timer = "armed") => ENABLED UTimerFire
  /\ (UBlocked /\ MDue) => ENABLED MTimerFire
  /\ (MBlocked /\ uPc # "idle") => ENABLED UpsStep
  /\ (UBlocked /\ mPc # "idle") => ENABLED MeasureStep
  /\ mainPc = "first_m" => (uPc = "idle" /\ ~ENABLED UpsStep)

\* C16 witness: a measurement iteration started by its Timer is publishing
\* while a UPS iteration started by its Timer is in the grace wait
C16_Witness ==
  /\ timer = "fired"
  /\ ups_timer = "fired"
  /\ mPc = "publish"
  /\ uPc = "in_check"
  /\ cbPc["ups"] = "sd_sleep"

\* the UPS loop is inside safe_shutdown
InShutdown ==
  cbPc["ups"] \in {"sd_guard", "sd_set", "sd_notify", "sd_sleep", "sd_cmd", "sd_fallback"}

\* C17: iterations of one loop never overlap: no callback of a loop is
\* entered while an iteration of that loop is executing; a loop has a Timer
\* created or armed only when its iteration has nothing left to do but start
\* it and return, so never during the grace wait of a shutdown; and a Timer
\* is created only when the loop's previous Timer is no longer outstanding
\* (at most one per loop).
C17_NoOverlap ==
  /\ ~mOverlap
  /\ ~uOverlap
  /\ Outstanding(timer) => mPc \in {"idle", "start"}
  /\ Outstanding(ups_timer) => uPc \in {"idle", "start"}
  /\ timer = "armed" => mPc = "idle"
  /\ ups_timer = "armed" => uPc = "idle"
  /\ mPc = "create" => ~Outstanding(timer)
  /\ uPc = "create" => ~Outstanding(ups_timer)
  /\ InShutdown => (uPc = "in_check" /\ ~Outstanding(ups_timer))

\* C17 witness: the second UPS iteration, started by the Timer, is in the
\* grace wait of the shutdown; no UPS Timer is outstanding, and the
\* measurement loop has its next Timer armed
C17_Witness ==
  /\ ups_timer = "fired"
  /\ cbPc["ups"] = "sd_sleep"
  /\ timer = "armed"
  /\ mPc = "idle"
  /\ mBodyDone

\* C20: shutdown_triggered starts false and, once true, stays true: no step
\* of check_battery, safe_shutdown, run, stop, cleanup or either loop sets it
\* back to false (so it changes from false to true at most once).
C20_TriggeredMonotonic ==
  /\ ~shutdown_triggered
  /\ [][shutdown_triggered => shutdown_triggered']_vars
  /\ [][shutdown_triggered' # shutdown_triggered => \E t \in Callers : cbPc[t] = "sd_set"]_vars

\* C20 witness: the shutdown was triggered, the UPS callback and cleanup
\* have both run stop(), the main thread has ended, and the flag is still
\* true
C20_Witness ==
  /\ shutdown_triggered
  /\ stops = 2
  /\ mainPc = "done"
  /\ uPc = "idle"
  /\ mPc = "idle"

\* what the UPS guard owns: its two fields, the position of its check and
\* shutdown routines, and what the shutdown sequence has done
GuardState ==
  <<shutdown_triggered, last_battery_level, lowKey, cbPc, cbLevel, cbRet,
    emergCount, warnCount, shutdownCmds, poweroffCmds>>

\* C21: the UPS guard state is mutated only by the UPS check routine: a step
\* of the measurement loop, its battery read included, leaves
\* shutdown_triggered and last_battery_level unchanged and runs no step of
\* the shutdown sequence, whatever level it reads; shutdown_triggered and
\* last_battery_level change only inside a check_battery call of a UPS loop
\* iteration, and the shutdown sequence runs only there.
C21_GuardOwnedByCheck ==
  /\ [][(mPc' # mPc \/ sensor_data' # sensor_data) => GuardState' = GuardState]_vars
  /\ [][shutdown_triggered' # shutdown_triggered
          => (uPc = "in_check" /\ cbPc["ups"] = "sd_set")]_vars
  /\ [][last_battery_level' # last_battery_level
          => (uPc = "in_check" /\ cbPc["ups"] = "read")]_vars
  /\ [](InShutdown => uPc = "in_check")
  /\ [](cbPc["second"] = "idle")

\* C21 witness: the measurement loop has read a critical level into the
\* snapshot and gone on to publish; the UPS loop, whose last check read 55,
\* is idle, and no shutdown was triggered
C21_Witness ==
  /\ sensor_data["ups_battery"] = 18
  /\ sensor_data["ups_battery"] <= ShutdownThreshold
  /\ mPc = "publish"
  /\ uPc = "idle"
  /\ uBodyDone
  /\ last_battery_level = 55
  /\ ~shutdown_triggered
  /\ emergCount = 0
  /\ shutdownCmds = 0

\* a step of a stop() call, by the main thread or by the UPS callback
StopStep ==
  \/ (mainPc \in {"cleanup", "stop_cm", "stop_cu"} /\ mainPc' # mainPc)
  \/ (uPc \in {"stop_flag", "stop_cm", "stop_cu"} /\ uPc' # uPc)

\* C6: stop() is idempotent: in every state, applying it twice gives what
\* applying it once gives, with _running false; every completed call leaves
\* _running false; and once a call has completed, the steps of a further call
\* (the UPS callback's or cleanup's) change none of _running, _timer and
\* _ups_timer unless a loop has armed a Timer in between.
C6_StopIdempotent ==
  /\ [](/\ StopEffect(StopEffect(RunState)) = StopEffect(RunState)
        /\ ~StopEffect(RunState).running)
  /\ [][stops' # stops => ~running']_vars
  /\ [][(StopStep /\ stops >= 1 /\ RunState = StopEffect(RunState))
          => RunState' = RunState]_vars

\* C6 witness: stop() has been called twice, by the UPS callback and by
\* cleanup, and both calls have completed
C6_Witness ==
  /\ stops = 2
  /\ stopSignal
  /\ mainPc = "done"
  /\ ~running

(* --------------------------- claims on SpecLog -------------------------- *)

\* log_data has built its line
Formatted == lPc \in {"append", "backup", "ret", "done"}

\* C22: in the CSV line written by log_data, a sensor's field is the empty
\* string exactly when the sensor's snapshot value is absent, and every
\* present value, 0 included, is written as its number; the line is the
\* timestamp and the seven fields in declaration order, and it is the line
\* appended to the data file.
C22_FieldEmptyIffAbsent ==
  Formatted =>
    /\ Len(data) = Len(Sensors)
    /\ \A i \in 1..Len(Sensors) :
         /\ data[i] = "" <=> sensor_data[Sensors[i]] = NoValue
         /\ sensor_data[Sensors[i]] # NoValue => data[i] = Str(sensor_data[Sensors[i]])
    /\ csv_line = Timestamp \o "," \o Join(data)
    /\ data_file # <<>> => data_file[Len(data_file)] = csv_line

(* ------------------- shutdown and stop, on the daemon ------------------- *)

\* the UPS loop's safe_shutdown is in its grace wait (line 138)
GraceWait == cbPc["ups"] = "sd_sleep"

\* the main thread's cleanup() has cleared _running (line 585 via line 594)
MainStopped == mainPc \in {"stop_cm", "stop_cu", "gpio", "done"}

\* C23 as stated: from the moment a UPS check triggers shutdown until
\* safe_shutdown has returned, the grace wait included, _running is true.
C23_Original ==
  (shutdown_triggered /\ InShutdown) => running

\* C23: when a UPS check triggers shutdown, the UPS loop sets _running to
\* false only after safe_shutdown has returned, so after the grace wait and
\* after the shutdown command was attempted; until then _running is false
\* only if the main thread's cleanup() (KeyboardInterrupt) has called stop()
\* meanwhile; and while _running is true, a measurement iteration that has
\* fired during the grace wait runs its body and re-arms its Timer.
C23_StopAfterShutdown ==
  /\ [][(running /\ ~running') =>
          \/ mainPc = "cleanup"
          \/ /\ uPc = "stop_flag"
             /\ cbPc["ups"] = "idle"
             /\ cbRet["ups"] = "False"
             /\ shutdown_triggered
             /\ shutdownCmds >= 1
             /\ cbPrimary["ups"] \in {"ok", "failed"}]_vars
  /\ []((shutdown_triggered /\ InShutdown /\ ~running) => MainStopped)
  /\ [][(GraceWait /\ running /\ mPc = "guard" /\ mPc' # mPc) => mPc' = "measure"]_vars
  /\ [][(GraceWait /\ running /\ mPc = "fin_check" /\ mPc' # mPc) => mPc' = "create"]_vars
  /\ [][(GraceWait /\ mPc = "create" /\ mPc' # mPc) => timer' = "created"]_vars
  /\ [][(GraceWait /\ mPc = "start" /\ timer = "created" /\ mPc' # mPc)
          => timer' = "armed"]_vars

\* C23 witness: the UPS iteration started by its Timer is in the grace wait,
\* _running is still true, and a measurement iteration started by its Timer
\* has run its body and created the next Timer
C23_Witness ==
  /\ GraceWait
  /\ shutdown_triggered
  /\ running
  /\ ups_timer = "fired"
  /\ mPc = "start"
  /\ timer = "created"
  /\ mBodyDone
  /\ sensor_data["ups_battery"] = 18


====
